---- MODULE Spec2Model ----
(***************************************************************************)
(* n3ds_smb: the SMB1 transport (transport.py), the protocol client        *)
(* (client.py) and the WebDAV bridge (webdav.py), with the console's SMB   *)
(* server as the environment.                                              *)
(*                                                                         *)
(* Granularity: a worker thread is observed only where it blocks: in a     *)
(* socket call (connect, or the recv that follows a send) or at the        *)
(* acquisition of the bridge mutex.  One action runs the code from one     *)
(* blocking point to the next.                                             *)
(*                                                                         *)
(* Paths are sequences of components (the root is << >>); NT status codes  *)
(* are represented by their low byte (0 is success).                       *)
(***************************************************************************)
EXTENDS Integers, Sequences, FiniteSets, TLC

\* ------------------------------------------------------------- bounds
MaxOps == 2
MaxFaults == 1
MaxDraws == 131074

\* ---------------------------------------------------- program constants
HTTP_BAD_REQUEST == 400
HTTP_FORBIDDEN == 403
HTTP_NOT_FOUND == 404
HTTP_INTERNAL_ERROR == 500
MID_MODULUS == 65535
STREAM_READ_DEFAULT == 32768
COPY_CHUNK == 32768
GET_CHUNK == 32768
GET_HEADROOM == 64
PUT_CHUNK == 16384
PUT_HEADROOM == 128

\* -------------------------------------------------------- environment
Workers == {"w1", "w2"}
Root == << >>
Paths == { Root, <<"d">>, <<"d", "f">>, <<"f">>, <<"g">>, <<"g", "f">>,
           <<"d", "e">>, <<"d", "e", "f">>, <<"g", "e">>, <<"g", "e", "f">> }
NT == [ok |-> 0, not_found |-> 52, denied |-> 34, collision |-> 53,
          not_empty |-> 1, bad_session |-> 91, is_dir |-> 186, bad_fid |-> 8]
ServerMaxBufs == {16644}
ServerSessKeys == {77}
ServerUids == {2048}
ServerTids == {1}

\* Byte strings are sequences of runs [b, n] (n > 0 copies of the byte b, no
\* two adjacent runs with the same byte), so that contents of tens of
\* kilobytes stay small; << >> is b"".
Rep(b, n) == IF n > 0 THEN << [b |-> b, n |-> n] >> ELSE << >>
RECURSIVE BLen(_)
BLen(d) == IF d = << >> THEN 0 ELSE Head(d).n + BLen(Tail(d))
BCat(a, c) ==
  IF a = << >> THEN c
  ELSE IF c = << >> THEN a
  ELSE IF a[Len(a)].b = c[1].b
    THEN SubSeq(a, 1, Len(a) - 1) \o << [b |-> c[1].b, n |-> a[Len(a)].n + c[1].n] >> \o Tail(c)
  ELSE a \o c
RECURSIVE BTake(_, _)
BTake(d, k) ==
  IF k <= 0 \/ d = << >> THEN << >>
  ELSE IF Head(d).n >= k THEN << [Head(d) EXCEPT !.n = k] >>
  ELSE << Head(d) >> \o BTake(Tail(d), k - Head(d).n)
RECURSIVE BDrop(_, _)
BDrop(d, k) ==
  IF k <= 0 \/ d = << >> THEN d
  ELSE IF Head(d).n > k THEN << [Head(d) EXCEPT !.n = @ - k] >> \o Tail(d)
  ELSE BDrop(Tail(d), k - Head(d).n)
\* d[off : off + cnt]
BSlice(d, off, cnt) == BTake(BDrop(d, off), cnt)

Hello == Rep(7, 5)
BigFile == BCat(Rep(7, 33000), Rep(8, 7000))
WriteChunks == { Rep(1, 5), << >>, Rep(1, 20000) }
ReadSizes == {-1, 0, 40000, 70000}

Parent(p) == IF Len(p) = 0 THEN Root ELSE SubSeq(p, 1, Len(p) - 1)
Join(p, name) == Append(p, name)
IsUnder(p, anc) == Len(p) >= Len(anc) /\ SubSeq(p, 1, Len(anc)) = anc
Rebase(p, old, new) == new \o SubSeq(p, Len(old) + 1, Len(p))
Min(a, b) == IF a < b THEN a ELSE b

InitTree ==
  [p \in Paths |->
     IF p \in {Root, <<"d">>} THEN [kind |-> "dir", data |-> << >>]
     ELSE IF p = <<"d", "f">> THEN [kind |-> "file", data |-> BigFile]
     ELSE IF p = <<"f">> THEN [kind |-> "file", data |-> Hello]
     ELSE [kind |-> "none", data |-> << >>]]

Absent == [kind |-> "none", data |-> << >>]
Exists(tr, p) == p \in Paths /\ tr[p].kind # "none"
IsDir(tr, p) == p \in Paths /\ tr[p].kind = "dir"
ChildrenOf(tr, p) == {c \in Paths : Len(c) = Len(p) + 1 /\ Parent(c) = p /\ tr[c].kind # "none"}

\* ------------------------------------------------------------ records
NoExc == [cls |-> "", status |-> 0]
Exc(cls, st) == [cls |-> cls, status |-> st]
DAVError(code) == [cls |-> "DAVError", status |-> code]
Ret(exc, n, s) == [exc |-> exc, n |-> n, s |-> s]
RetNone == Ret(NoExc, 0, << >>)
Raised(e) == Ret(e, 0, << >>)

NoArg == [p |-> Root, q |-> Root, fid |-> 0, off |-> 0, cnt |-> 0, data |-> << >>, disp |-> 0]

\* Python's exception hierarchy, as far as the bridge distinguishes it.
IsOSError(cls) ==
  cls \in {"OSError", "ConnectionError", "TimeoutError", "FileNotFoundError", "PermissionError"}

\* ------------------------------------------------- the console's server
\* One reply: status, a number (file-id, count), a sequence (data, entries),
\* and the file tree and open-file table after the request.
Reply(st, n, s, tr, fd) == [status |-> st, n |-> n, s |-> s, tree |-> tr, fids |-> fd]
Fail(st, tr, fd) == Reply(st, 0, << >>, tr, fd)

NewFid(fd) == CHOOSE n \in 1..(Cardinality(fd) + 1) : \A h \in fd : h.fid # n
Handle(fd, fid) == {h \in fd : h.fid = fid}
NameOrder == <<"d", "e", "f", "g">>
Entry(tr, p) == [name |-> p[Len(p)], size |-> BLen(tr[p].data), is_dir |-> tr[p].kind = "dir"]
Dots == << [name |-> ".", size |-> 0, is_dir |-> TRUE], [name |-> "..", size |-> 0, is_dir |-> TRUE] >>

RECURSIVE Listing(_, _, _)
Listing(tr, p, i) ==
  IF i > Len(NameOrder) THEN << >>
  ELSE LET c == Join(p, NameOrder[i])
       IN  (IF Exists(tr, c) THEN << Entry(tr, c) >> ELSE << >>) \o Listing(tr, p, i + 1)

WriteAt(data, off, b) ==
  LET head == IF off <= BLen(data) THEN BTake(data, off)
              ELSE BCat(data, Rep(0, off - BLen(data)))
      tail == BDrop(data, off + BLen(b))
  IN  BCat(BCat(head, b), tail)

SrvOpen(tr, fd, a) ==
  LET p == a.p
      fid == NewFid(fd)
      opened == fd \cup {[fid |-> fid, p |-> p]}
  IN  IF p \notin Paths THEN Fail(NT.denied, tr, fd)
      ELSE IF a.disp = 1 THEN
             IF Exists(tr, p) THEN Reply(NT.ok, fid, << >>, tr, opened)
             ELSE Fail(NT.not_found, tr, fd)
      ELSE IF a.disp = 5 THEN
             IF IsDir(tr, p) THEN Fail(NT.is_dir, tr, fd)
             ELSE IF ~IsDir(tr, Parent(p)) THEN Fail(NT.not_found, tr, fd)
             ELSE Reply(NT.ok, fid, << >>,
                        [tr EXCEPT ![p] = [kind |-> "file", data |-> << >>]], opened)
      ELSE IF Exists(tr, p) THEN Fail(NT.collision, tr, fd)
      ELSE IF ~IsDir(tr, Parent(p)) THEN Fail(NT.not_found, tr, fd)
      ELSE Reply(NT.ok, fid, << >>, [tr EXCEPT ![p] = [kind |-> "dir", data |-> << >>]], opened)

SrvRead(tr, fd, a) ==
  IF Handle(fd, a.fid) = {} THEN Fail(NT.bad_fid, tr, fd)
  ELSE LET h == CHOOSE x \in Handle(fd, a.fid) : TRUE
           data == tr[h.p].data
       IN  IF tr[h.p].kind # "file" THEN Fail(NT.denied, tr, fd)
           ELSE Reply(NT.ok, 0, BSlice(data, a.off, a.cnt), tr, fd)

SrvWrite(tr, fd, a) ==
  IF Handle(fd, a.fid) = {} THEN Fail(NT.bad_fid, tr, fd)
  ELSE LET h == CHOOSE x \in Handle(fd, a.fid) : TRUE
       IN  IF tr[h.p].kind # "file" THEN Fail(NT.denied, tr, fd)
           ELSE Reply(NT.ok, BLen(a.data), << >>,
                      [tr EXCEPT ![h.p].data = WriteAt(@, a.off, a.data)], fd)

SrvClose(tr, fd, a) ==
  IF Handle(fd, a.fid) = {} THEN Fail(NT.bad_fid, tr, fd)
  ELSE Reply(NT.ok, 0, << >>, tr, fd \ Handle(fd, a.fid))

SrvDelete(tr, fd, a) ==
  IF ~Exists(tr, a.p) THEN Fail(NT.not_found, tr, fd)
  ELSE IF IsDir(tr, a.p) THEN Fail(NT.is_dir, tr, fd)
  ELSE Reply(NT.ok, 0, << >>, [tr EXCEPT ![a.p] = Absent], fd)

SrvRmdir(tr, fd, a) ==
  IF ~IsDir(tr, a.p) THEN Fail(NT.not_found, tr, fd)
  ELSE IF a.p = Root THEN Fail(NT.denied, tr, fd)
  ELSE IF ChildrenOf(tr, a.p) # {} THEN Fail(NT.not_empty, tr, fd)
  ELSE Reply(NT.ok, 0, << >>, [tr EXCEPT ![a.p] = Absent], fd)

\* cap is what the console supports: one that cannot rename a directory
\* refuses the request.
SrvRename(tr, fd, a, cap) ==
  LET moved == {c \in Paths : Exists(tr, c) /\ IsUnder(c, a.p)}
  IN  IF ~Exists(tr, a.p) THEN Fail(NT.not_found, tr, fd)
      ELSE IF IsDir(tr, a.p) /\ ~cap.dir_rename THEN Fail(NT.denied, tr, fd)
      ELSE IF a.p = Root \/ a.q \notin Paths \/ IsUnder(a.q, a.p) THEN Fail(NT.denied, tr, fd)
      ELSE IF Exists(tr, a.q) THEN Fail(NT.collision, tr, fd)
      ELSE IF ~IsDir(tr, Parent(a.q)) THEN Fail(NT.not_found, tr, fd)
      ELSE IF \E c \in moved : Rebase(c, a.p, a.q) \notin Paths THEN Fail(NT.denied, tr, fd)
      ELSE Reply(NT.ok, 0, << >>,
                 [c \in Paths |->
                    IF IsUnder(c, a.q) /\ Rebase(c, a.q, a.p) \in moved
                      THEN tr[Rebase(c, a.q, a.p)]
                    ELSE IF c \in moved THEN Absent ELSE tr[c]], fd)

SrvList(tr, fd, a) ==
  IF ~IsDir(tr, a.p) THEN Fail(NT.not_found, tr, fd)
  ELSE Reply(NT.ok, 0, Dots \o Listing(tr, a.p, 1), tr, fd)

SrvDiskInfo(tr, fd, a) == Reply(NT.ok, 0, <<100, 30, 8, 512>>, tr, fd)

\* What the server does with a request of an established session.
SrvData(cmd, tr, fd, a, cap) ==
  CASE cmd = "open_file" -> SrvOpen(tr, fd, a)
    [] cmd = "read" -> SrvRead(tr, fd, a)
    [] cmd = "write" -> SrvWrite(tr, fd, a)
    [] cmd = "close_file" -> SrvClose(tr, fd, a)
    [] cmd = "delete" -> SrvDelete(tr, fd, a)
    [] cmd = "rmdir" -> SrvRmdir(tr, fd, a)
    [] cmd = "rename" -> SrvRename(tr, fd, a, cap)
    [] cmd = "listdir" -> SrvList(tr, fd, a)
    [] cmd = "disk_info" -> SrvDiskInfo(tr, fd, a)
    [] OTHER -> Reply(NT.ok, 0, << >>, tr, fd)

\* ---------------------------------------------------------------- state
VARIABLES
  readonly,   \* N3DSSMBProvider._readonly
  lock,       \* N3DSSMBProvider._lock: [owner, count]
  client,     \* N3DSClient: [t, uid, tid, max_buf, sess_key]; t = 0 is None
  socks,      \* every socket connect() created, and the SMBTransport on it
  nconn,      \* sockets created so far
  wire,       \* requests sent whose recv has not returned
  tree,       \* the console's file tree
  th,         \* the worker threads: call stack and stream of each
  http,       \* what the last finished bridge call handed to the HTTP layer
  ops,        \* bridge calls started
  faults,     \* times the console or the network failed the client
  console,    \* what the console's server supports: [dir_rename]
  net,        \* one connection to a console that may answer late
  pure,       \* a function of the package applied to an input: [f, in, out, done]
  disc,       \* discover_3ds: the run, and the same run started without a cache file
  g           \* history kept for the properties: the last status failure, the
              \* client call of the last step, the draws of a watched multiplex id,
              \* the upload whose content a path is expected to hold

vars == <<readonly, lock, client, socks, nconn, wire, tree, th, http, ops, faults, console, disc, pure, net, g>>

ConnIds == 1..(MaxFaults + 1)
NoStream == [kind |-> "none", p |-> Root, fid |-> 0, pos |-> 0, closed |-> FALSE]
NoSec == [fn |-> "", p |-> Root, q |-> Root]
Frame(fn, p, q, name) ==
  [fn |-> fn, pc |-> "start", p |-> p, q |-> q, name |-> name, sec |-> NoSec,
   kids |-> << >>, errs |-> 0, fid |-> 0, fid2 |-> 0, off |-> 0, buf |-> << >>,
   n |-> 0, closed |-> FALSE, chk |-> "none", sock |-> 0, pend |-> NoExc]
NoSock == [open |-> FALSE, up |-> FALSE, stage |-> 0, mid |-> 0, uid |-> 0, tid |-> 0,
           fids |-> {}, life |-> << >>, issued |-> {}]
NoClient == [t |-> 0, uid |-> 0, tid |-> 0, max_buf |-> 0, sess_key |-> 0]
NoFail == [conn |-> 0, mid |-> 0, cl |-> NoClient, next |-> 0, nconn |-> 0]
NoDraws == [watch |-> 0, last |-> 0, gap |-> 0, n |-> 0]
NoCall == [cmd |-> "", status |-> 0, raised |-> FALSE]
NoIo == [p |-> Root, want |-> << >>, gone |-> Root, over |-> << >>, twice |-> FALSE]
NoHttp == [op |-> "", p |-> Root, q |-> Root, name |-> "", buf |-> << >>, out |-> RetNone]
\* The call fr handed out to its caller.
HttpOf(fr, out) ==
  [op |-> fr.fn, p |-> fr.p, q |-> fr.q, name |-> fr.name, buf |-> fr.buf, out |-> out]

\* A run of discover_3ds: None is the empty text (the code only tests
\* truthiness); log holds every finished step with what it was about and how
\* it ended.
NoPair == [ip |-> << >>, name |-> << >>]
Missing == [kind |-> "missing", text |-> << >>]
NewRun(file) ==
  [pc |-> "start", file |-> file, cip |-> << >>, cname |-> << >>, ip |-> << >>, name |-> << >>,
   out |-> NoPair, exc |-> "", log |-> << >>]
\* The connection before the first call: no transport, nothing sent.
NoNet == [t |-> 0, nconn |-> 0, mid |-> 0, pc |-> "idle", want |-> "", req |-> [cmd |-> "", mid |-> 0],
          todo |-> << >>, inbox |-> << >>, calls |-> 0, late |-> {}, sends |-> << >>, pairs |-> << >>]
NoPure == [f |-> "", in |-> << >>, out |-> << >>, done |-> FALSE]
NoDisc == [file0 |-> Missing, a |-> NewRun(Missing), b |-> NewRun(Missing)]

\* The variables as one record, so that the code between two blocking points
\* composes as functions on it.  http and g.call describe the step just taken,
\* g.fail the last status failure until the request after it has been seen.
St == [lock |-> lock, client |-> client, socks |-> socks, nconn |-> nconn, wire |-> wire,
       tree |-> tree, th |-> th, http |-> NoHttp, ops |-> ops, faults |-> faults,
       g |-> [g EXCEPT !.fail = IF @.next # 0 THEN NoFail ELSE @, !.call = NoCall]]
Commit(s) ==
  /\ lock' = s.lock /\ client' = s.client /\ socks' = s.socks /\ nconn' = s.nconn
  /\ wire' = s.wire /\ tree' = s.tree /\ th' = s.th /\ http' = s.http /\ ops' = s.ops
  /\ faults' = s.faults /\ g' = s.g
  /\ UNCHANGED <<readonly, console, disc, pure, net>>

Top(stk) == stk[Len(stk)]
Pop(stk) == SubSeq(stk, 1, Len(stk) - 1)
SetTop(stk, f) == [stk EXCEPT ![Len(stk)] = f]

SecFns == {"listdir", "quota", "mkdir", "create", "rmdir", "rename", "delete", "copy",
           "sread", "swrite", "sclose"}
\* The client's own loops, called without the bridge.
ClientFns == {"put_file", "get_file"}
LifeCmds == {"session", "negotiate", "auth", "tree"}
DataCmds == {"open_file", "read", "write", "close_file", "listdir", "delete", "rename",
             "rmdir", "disk_info"}

\* ------------------------------------------------------------ transport
\* A variant of SMBTransport.mid that wraps at 2^16 instead of 0xFFFF.
NextMidModulo65536(m) == (m % 65536) + 1
\* SMBTransport.mid
NextMid(m) == (m % MID_MODULUS) + 1

\* SMBTransport.send, after cmd (or _negotiate) drew the multiplex id: the
\* request is on the socket until recv returns.
SendReq(s, w, cmd, arg, uid, tid) ==
  LET c == s.client.t
      m == NextMid(s.socks[c].mid)
      stk == s.th[w].stack
      req == [by |-> w, conn |-> c, cmd |-> cmd, mid |-> m, uid |-> uid, tid |-> tid,
              arg |-> arg, locked |-> s.lock.owner = w, chk |-> Top(stk).chk,
              sec |-> Top(stk).fn, op |-> stk[1].fn]
      fl == s.g.fail
  IN  [s EXCEPT !.socks[c].mid = m,
                !.socks[c].life = IF cmd \in LifeCmds THEN Append(@, cmd) ELSE @,
                !.wire = @ \cup {req},
                !.g.fail = IF fl.conn # 0 /\ fl.next = 0
                             THEN [fl EXCEPT !.next = m, !.nconn = c] ELSE fl]

\* ---------------------------------------------- client: what a call returns
OpenFileReturn(rep) ==
  IF rep.status # 0 THEN Raised(Exc("OSError", rep.status)) ELSE Ret(NoExc, rep.n, << >>)
ReadReturn(rep) == IF rep.status # 0 THEN Ret(NoExc, 0, << >>) ELSE Ret(NoExc, 0, rep.s)
WriteReturn(rep) ==
  IF rep.status # 0 THEN Raised(Exc("OSError", rep.status)) ELSE Ret(NoExc, rep.n, << >>)
CloseFileReturn(rep) == RetNone
DeleteReturn(rep) == IF rep.status # 0 THEN Raised(Exc("OSError", rep.status)) ELSE RetNone
RenameReturnIgnoringStatus(rep) == RetNone
RenameReturn(rep) == IF rep.status # 0 THEN Raised(Exc("OSError", rep.status)) ELSE RetNone
RmdirReturn(rep) == IF rep.status # 0 THEN Raised(Exc("OSError", rep.status)) ELSE RetNone
EchoReturn(rep) == Ret(NoExc, IF rep.status = 0 THEN 1 ELSE 0, << >>)
\* _trans2 returns (status, b"", b"") on a non-zero status; listdir then sees
\* len(pp) < 8 and returns [], disk_info returns None.
Trans2Return(rep) ==
  IF rep.status # 0 THEN [status |-> rep.status, pp |-> 0, dd |-> << >>]
  ELSE [status |-> 0, pp |-> 10, dd |-> rep.s]
ListdirReturn(rep) ==
  LET x == Trans2Return(rep) IN IF x.pp < 8 THEN Ret(NoExc, 0, << >>) ELSE Ret(NoExc, 0, x.dd)
DiskInfoReturn(rep) ==
  LET x == Trans2Return(rep)
  IN  IF x.status # 0 \/ Len(x.dd) < 4 THEN Ret(NoExc, 0, << >>)
      ELSE Ret(NoExc, 1, << x.dd[1] * x.dd[3] * x.dd[4], x.dd[2] * x.dd[3] * x.dd[4] >>)

\* recv_bytes raises ConnectionError when the peer is gone; otherwise the
\* method's own epilogue decides.
ClientReturn(cmd, rep) ==
  IF rep.dead THEN Raised(Exc("ConnectionError", 0))
  ELSE CASE cmd = "open_file" -> OpenFileReturn(rep)
         [] cmd = "read" -> ReadReturn(rep)
         [] cmd = "write" -> WriteReturn(rep)
         [] cmd = "close_file" -> CloseFileReturn(rep)
         [] cmd = "delete" -> DeleteReturn(rep)
         [] cmd = "rename" -> RenameReturn(rep)
         [] cmd = "rmdir" -> RmdirReturn(rep)
         [] cmd = "echo" -> EchoReturn(rep)
         [] cmd = "listdir" -> ListdirReturn(rep)
         [] cmd = "disk_info" -> DiskInfoReturn(rep)
         [] OTHER -> RetNone

\* ------------------------------------------------------ bridge: mapping
AsDavError(e) ==
  IF e.cls = "DAVError" THEN e
  ELSE IF e.cls = "FileNotFoundError" THEN DAVError(HTTP_NOT_FOUND)
  ELSE IF e.cls = "PermissionError" THEN DAVError(HTTP_FORBIDDEN)
  ELSE IF IsOSError(e.cls) THEN DAVError(HTTP_FORBIDDEN)
  ELSE DAVError(HTTP_INTERNAL_ERROR)

Failed(r) == r.exc # NoExc
Converted(r) == IF Failed(r) THEN Raised(AsDavError(r.exc)) ELSE r

DavParent(p) == Parent(p)
DavName(p) == IF Len(p) = 0 THEN "" ELSE p[Len(p)]
DavJoin(p, name) == Join(p, name)

\* _listdir_entries drops "." and ".."
ListdirEntries(raw) == SelectSeq(raw, LAMBDA e : e.name \notin {".", ".."})
\* _stat: the first entry of the parent's listing with that name
StatIn(entries, name) ==
  LET hits == SelectSeq(entries, LAMBDA e : e.name = name)
  IN  IF hits = << >> THEN 0 ELSE IF hits[1].is_dir THEN 2 ELSE 1

\* ------------------------------------- bridge: the code outside the mutex
\* A frame's step on the value r that its last call (a locked section or a
\* called method) returned: it returns, waits for the mutex of its next locked
\* section, or calls another method.
Return(r) == [kind |-> "ret", ret |-> r]
Wait(f, pc, fn, p, q) ==
  [kind |-> "wait", f |-> [f EXCEPT !.pc = pc, !.sec = [fn |-> fn, p |-> p, q |-> q]]]
Call(f, pc, child) == [kind |-> "call", f |-> [f EXCEPT !.pc = pc], child |-> child]
Value(n) == Ret(NoExc, n, << >>)

MutatingOps == {"create_collection", "create_empty_resource", "begin_write", "file_delete",
                "dir_delete", "handle_move", "move_recursive", "copy_move_single"}
\* A variant in which _N3DSFile.delete forgets the read-only test.
ReadonlyRefusedButDelete(fn, ro) == ro /\ fn \in MutatingOps \ {"file_delete"}
\* if self._p.is_readonly(): raise DAVError(HTTP_FORBIDDEN)
ReadonlyRefused(fn, ro) == ro /\ fn \in MutatingOps

\* N3DSSMBProvider.get_resource_inst with _stat: 0 None, 1 file, 2 collection
StepGetResourceInst(f, r) ==
  CASE f.pc = "start" ->
         IF f.p = Root THEN Return(Value(2))
         ELSE Wait(f, "list", "listdir", DavParent(f.p), Root)
    [] f.pc = "list" ->
         IF Failed(r) THEN Return(r)
         ELSE Return(Value(StatIn(ListdirEntries(r.s), DavName(f.p))))

\* _N3DSDir.get_member_names, get_member_list
StepGetMembers(f, r) ==
  CASE f.pc = "start" -> Wait(f, "list", "listdir", f.p, Root)
    [] f.pc = "list" ->
         IF Failed(r) THEN Return(Converted(r)) ELSE Return(Ret(NoExc, 0, ListdirEntries(r.s)))

\* _N3DSDir.get_available_bytes, get_used_bytes
StepQuota(f, r) ==
  CASE f.pc = "start" -> Wait(f, "quota", "quota", f.p, Root)
    [] f.pc = "quota" ->
         IF Failed(r) THEN Return(r)
         ELSE IF r.n = 0 THEN Return(RetNone)
         ELSE IF f.fn = "get_available_bytes" THEN Return(Value(r.s[2]))
         ELSE Return(Value(r.s[1] - r.s[2]))

\* _N3DSDir.create_collection
StepCreateCollection(f, r, ro) ==
  CASE f.pc = "start" ->
         IF ReadonlyRefused(f.fn, ro) THEN Return(Raised(DAVError(HTTP_FORBIDDEN)))
         ELSE IF f.name = "" THEN Return(Raised(DAVError(HTTP_BAD_REQUEST)))
         ELSE Wait(f, "mkdir", "mkdir", DavJoin(f.p, f.name), Root)
    [] f.pc = "mkdir" ->
         IF Failed(r) THEN Return(Converted(r))
         ELSE Call(f, "stat", Frame("get_resource_inst", DavJoin(f.p, f.name), Root, ""))
    [] f.pc = "stat" -> Return(r)

\* _N3DSDir.create_empty_resource
StepCreateEmptyResource(f, r, ro) ==
  CASE f.pc = "start" ->
         IF ReadonlyRefused(f.fn, ro) THEN Return(Raised(DAVError(HTTP_FORBIDDEN)))
         ELSE IF f.name = "" THEN Return(Raised(DAVError(HTTP_BAD_REQUEST)))
         ELSE Wait(f, "create", "create", DavJoin(f.p, f.name), Root)
    [] f.pc = "create" -> IF Failed(r) THEN Return(Converted(r)) ELSE Return(Value(1))

\* _N3DSFile.delete
StepFileDelete(f, r, ro) ==
  CASE f.pc = "start" ->
         IF ReadonlyRefused(f.fn, ro) THEN Return(Raised(DAVError(HTTP_FORBIDDEN)))
         ELSE Wait(f, "del", "delete", f.p, Root)
    [] f.pc = "del" -> IF Failed(r) THEN Return(Converted(r)) ELSE Return(Value(0))

\* _N3DSFile.handle_move
StepHandleMove(f, r, ro) ==
  CASE f.pc = "start" ->
         IF ReadonlyRefused(f.fn, ro) THEN Return(Raised(DAVError(HTTP_FORBIDDEN)))
         ELSE Wait(f, "ren", "rename", f.p, f.q)
    [] f.pc = "ren" -> IF Failed(r) THEN Return(Converted(r)) ELSE Return(Value(1))

\* _N3DSFile.copy_move_single; name = "move" stands for is_move
StepCopyMoveSingle(f, r, ro) ==
  CASE f.pc = "start" ->
         IF ReadonlyRefused(f.fn, ro) THEN Return(Raised(DAVError(HTTP_FORBIDDEN)))
         ELSE Wait(f, "cp", IF f.name = "move" THEN "rename" ELSE "copy", f.p, f.q)
    [] f.pc = "cp" -> IF Failed(r) THEN Return(Converted(r)) ELSE Return(Value(0))

\* _N3DSDir.delete: the children of the listing, then rmdir; errs counts the
\* entries of the returned error list.
DirDeleteNext(f) ==
  IF f.kids # << >> THEN
    LET e == Head(f.kids)
    IN  Call([f EXCEPT !.kids = Tail(@)], "kid",
             Frame(IF e.is_dir THEN "dir_delete" ELSE "file_delete", DavJoin(f.p, e.name), Root, ""))
  ELSE Wait(f, "rmdir", "rmdir", f.p, Root)
StepDirDelete(f, r, ro) ==
  CASE f.pc = "start" ->
         IF ReadonlyRefused(f.fn, ro) THEN Return(Raised(DAVError(HTTP_FORBIDDEN)))
         ELSE Wait(f, "list", "listdir", f.p, Root)
    [] f.pc = "list" ->
         IF Failed(r) THEN Return(Converted(Converted(r)))
         ELSE DirDeleteNext([f EXCEPT !.kids = ListdirEntries(r.s)])
    [] f.pc = "kid" -> DirDeleteNext([f EXCEPT !.errs = IF Failed(r) THEN @ + 1 ELSE @])
    [] f.pc = "rmdir" -> Return(Value(IF Failed(r) THEN f.errs + 1 ELSE f.errs))

\* _N3DSDir.move_recursive: one rename; on any exception the fallback
MoveNext(f) ==
  IF f.kids # << >> THEN
    LET e == Head(f.kids)
    IN  Call([f EXCEPT !.kids = Tail(@)], "fb_kid",
             Frame(IF e.is_dir THEN "move_recursive" ELSE "copy_move_single",
                   DavJoin(f.p, e.name), DavJoin(f.q, e.name), IF e.is_dir THEN "" ELSE "move"))
  ELSE Call(f, "fb_del", Frame("dir_delete", f.p, Root, ""))
\* A variant that goes on to the fallback whatever the rename returned.
AfterRenameAlwaysFallback(f, r) ==
  Call(f, "fb_parent", Frame("get_resource_inst", DavParent(f.q), Root, ""))
\* return [] after the rename, except Exception: the fallback
AfterRename(f, r) ==
  IF ~Failed(r) THEN Return(Value(0))
  ELSE Call(f, "fb_parent", Frame("get_resource_inst", DavParent(f.q), Root, ""))
StepMoveRecursive(f, r, ro) ==
  CASE f.pc = "start" ->
         IF ReadonlyRefused(f.fn, ro) THEN Return(Raised(DAVError(HTTP_FORBIDDEN)))
         ELSE Wait(f, "ren", "rename", f.p, f.q)
    [] f.pc = "ren" -> AfterRename(f, r)
    [] f.pc = "fb_parent" ->
         IF Failed(r) THEN Return(Converted(r))
         ELSE IF r.n # 2 THEN Return(Raised(DAVError(HTTP_BAD_REQUEST)))
         ELSE Call(f, "fb_mk", Frame("create_collection", DavParent(f.q), Root, DavName(f.q)))
    [] f.pc = "fb_mk" ->
         IF Failed(r) THEN Return(Converted(r)) ELSE Wait(f, "fb_list", "listdir", f.p, Root)
    [] f.pc = "fb_list" ->
         IF Failed(r) THEN Return(Converted(r))
         ELSE MoveNext([f EXCEPT !.kids = ListdirEntries(r.s)])
    [] f.pc = "fb_kid" -> MoveNext([f EXCEPT !.errs = IF Failed(r) THEN @ + 1 ELSE @])
    [] f.pc = "fb_del" -> Return(Value(IF Failed(r) THEN f.errs + 1 ELSE f.errs))

\* _N3DSFile.get_content, begin_write: the stream object, no server call
StepGetContent(f, r) == Return(Value(1))
StepBeginWrite(f, r, ro) ==
  IF ReadonlyRefused(f.fn, ro) THEN Return(Raised(DAVError(HTTP_FORBIDDEN))) ELSE Return(Value(1))

\* _SMBReadStream.read outside the mutex; n is the caller's n
StepStreamRead(f, r) ==
  CASE f.pc = "start" ->
         IF f.closed THEN Return(RetNone)
         ELSE IF f.n = 0 THEN Return(RetNone)
         ELSE Wait([f EXCEPT !.n = IF @ < 0 THEN STREAM_READ_DEFAULT ELSE @], "rd", "sread", f.p, Root)
    [] f.pc = "rd" -> Return(r)

\* _SMBWriteStream.write outside the mutex
StepStreamWrite(f, r) ==
  CASE f.pc = "start" ->
         IF f.closed THEN Return(Raised(Exc("ValueError", 0)))
         ELSE IF f.buf = << >> THEN Return(Value(0))
         ELSE Wait(f, "wr", "swrite", f.p, Root)
    [] f.pc = "wr" -> Return(r)

\* _SMBReadStream.close, _SMBWriteStream.close outside the mutex
StepStreamClose(f, r) ==
  CASE f.pc = "start" -> IF f.closed THEN Return(RetNone) ELSE Wait(f, "cl", "sclose", f.p, Root)
    [] f.pc = "cl" -> Return(r)

Step(f, r, ro) ==
  CASE f.fn = "get_resource_inst" -> StepGetResourceInst(f, r)
    [] f.fn \in {"get_member_names", "get_member_list"} -> StepGetMembers(f, r)
    [] f.fn \in {"get_available_bytes", "get_used_bytes"} -> StepQuota(f, r)
    [] f.fn = "create_collection" -> StepCreateCollection(f, r, ro)
    [] f.fn = "create_empty_resource" -> StepCreateEmptyResource(f, r, ro)
    [] f.fn = "file_delete" -> StepFileDelete(f, r, ro)
    [] f.fn = "handle_move" -> StepHandleMove(f, r, ro)
    [] f.fn = "copy_move_single" -> StepCopyMoveSingle(f, r, ro)
    [] f.fn = "dir_delete" -> StepDirDelete(f, r, ro)
    [] f.fn = "move_recursive" -> StepMoveRecursive(f, r, ro)
    [] f.fn = "get_content" -> StepGetContent(f, r)
    [] f.fn = "begin_write" -> StepBeginWrite(f, r, ro)
    [] f.fn = "stream_read" -> StepStreamRead(f, r)
    [] f.fn = "stream_write" -> StepStreamWrite(f, r)
    [] f.fn = "stream_close" -> StepStreamClose(f, r)

\* Run the worker's stack on r until it blocks on the mutex or the bridge call
\* returns to the HTTP layer.
RECURSIVE Run(_, _, _), Resume(_, _, _)
Run(stk, r, ro) ==
  IF stk = << >> THEN [stack |-> << >>, done |-> TRUE, out |-> r]
  ELSE Resume(stk, Step(Top(stk), r, ro), ro)
Resume(stk, res, ro) ==
  CASE res.kind = "ret" -> Run(Pop(stk), res.ret, ro)
    [] res.kind = "wait" -> [stack |-> SetTop(stk, res.f), done |-> FALSE, out |-> RetNone]
    [] res.kind = "call" -> Run(Append(SetTop(stk, res.f), res.child), RetNone, ro)

\* ---------------------------------- bridge: the code inside the mutex
\* The body of a locked section after _ensure_connected, as a step on the
\* value r of the client call that just returned: the next client call, or
\* the end of the with-block.
BSend(f, pc, cmd, arg) == [kind |-> "send", f |-> [f EXCEPT !.pc = pc], cmd |-> cmd, arg |-> arg]
BExit(f, r) == [kind |-> "exit", f |-> f, ret |-> r]
OpenArg(p, disp) == [NoArg EXCEPT !.p = p, !.disp = disp]
FidArg(fid) == [NoArg EXCEPT !.fid = fid]
ReadArg(fid, off, cnt) == [NoArg EXCEPT !.fid = fid, !.off = off, !.cnt = cnt]
WriteArg(fid, data, off) == [NoArg EXCEPT !.fid = fid, !.off = off, !.data = data]

\* _listdir_entries: client.listdir
BodyListdir(f, r) ==
  IF f.pc = "body" THEN BSend(f, "c1", "listdir", [NoArg EXCEPT !.p = f.p]) ELSE BExit(f, r)
\* get_available_bytes, get_used_bytes: client.disk_info
BodyQuota(f, r) ==
  IF f.pc = "body" THEN BSend(f, "c1", "disk_info", NoArg) ELSE BExit(f, r)
\* create_collection: client.mkdir = close_file(open_file(disp=2, opts=1))
BodyMkdir(f, r) ==
  CASE f.pc = "body" -> BSend(f, "c1", "open_file", OpenArg(f.p, 2))
    [] f.pc = "c1" -> IF Failed(r) THEN BExit(f, r)
                      ELSE BSend([f EXCEPT !.fid = r.n], "c2", "close_file", FidArg(r.n))
    [] f.pc = "c2" -> BExit(f, r)
\* create_empty_resource: open_file(disp=5) and close_file
BodyCreate(f, r) ==
  CASE f.pc = "body" -> BSend(f, "c1", "open_file", OpenArg(f.p, 5))
    [] f.pc = "c1" -> IF Failed(r) THEN BExit(f, r)
                      ELSE BSend([f EXCEPT !.fid = r.n], "c2", "close_file", FidArg(r.n))
    [] f.pc = "c2" -> BExit(f, r)
\* _N3DSDir.delete: rmdir unless the path is the root
\* A variant without the test of the root path.
BodyRmdirAlsoRoot(f, r) ==
  IF f.pc = "body" THEN BSend(f, "c1", "rmdir", [NoArg EXCEPT !.p = f.p]) ELSE BExit(f, r)
BodyRmdir(f, r) ==
  IF f.pc = "body"
    THEN IF f.p # Root THEN BSend(f, "c1", "rmdir", [NoArg EXCEPT !.p = f.p]) ELSE BExit(f, RetNone)
    ELSE BExit(f, r)
\* handle_move, move_recursive, copy_move_single(is_move): client.rename
BodyRename(f, r) ==
  IF f.pc = "body" THEN BSend(f, "c1", "rename", [NoArg EXCEPT !.p = f.p, !.q = f.q]) ELSE BExit(f, r)
\* _N3DSFile.delete: client.delete
BodyDelete(f, r) ==
  IF f.pc = "body" THEN BSend(f, "c1", "delete", [NoArg EXCEPT !.p = f.p]) ELSE BExit(f, r)
\* copy_move_single, is_move false: two opens, the read/write loop, and the
\* finally that closes both; pend is the exception the finally re-raises.
BodyCopy(f, r) ==
  CASE f.pc = "body" -> BSend(f, "src", "open_file", OpenArg(f.p, 1))
    [] f.pc = "src" -> IF Failed(r) THEN BExit(f, r)
                       ELSE BSend([f EXCEPT !.fid = r.n], "dst", "open_file", OpenArg(f.q, 5))
    [] f.pc = "dst" -> IF Failed(r) THEN BExit(f, r)
                       ELSE BSend([f EXCEPT !.fid2 = r.n, !.off = 0], "rd", "read",
                                  ReadArg(f.fid, 0, COPY_CHUNK))
    [] f.pc = "rd" -> IF Failed(r) THEN BSend([f EXCEPT !.pend = r.exc], "cl1", "close_file", FidArg(f.fid))
                      ELSE IF r.s = << >> THEN BSend(f, "cl1", "close_file", FidArg(f.fid))
                      ELSE BSend([f EXCEPT !.buf = r.s], "wr", "write", WriteArg(f.fid2, r.s, f.off))
    [] f.pc = "wr" -> IF Failed(r) THEN BSend([f EXCEPT !.pend = r.exc], "cl1", "close_file", FidArg(f.fid))
                      ELSE BSend([f EXCEPT !.off = @ + BLen(f.buf)], "rd", "read",
                                 ReadArg(f.fid, f.off + BLen(f.buf), COPY_CHUNK))
    [] f.pc = "cl1" -> IF Failed(r) THEN BExit(f, r)
                       ELSE BSend(f, "cl2", "close_file", FidArg(f.fid2))
    [] f.pc = "cl2" -> IF Failed(r) THEN BExit(f, r)
                       ELSE IF f.pend # NoExc THEN BExit(f, Raised(f.pend)) ELSE BExit(f, RetNone)
\* struct.pack in N3DSClient.read ("H" for the count, "I" for the offset) and
\* N3DSClient.write ("H" for len(data), "I" for the offset) raises struct.error
\* on a value that does not fit; nothing is sent then.  (Offsets here stay
\* far below 2^32.)
PackFails(cmd, arg) ==
  \/ cmd = "read" /\ (arg.cnt \notin 0..65535 \/ arg.off < 0)
  \/ cmd = "write" /\ (BLen(arg.data) > 65535 \/ arg.off < 0)
BCall(f, pc, cmd, arg) ==
  IF PackFails(cmd, arg) THEN BExit(f, Raised(Exc("struct.error", 0)))
  ELSE BSend(f, pc, cmd, arg)
\* A variant that opens the file on every read.
BodyStreamReadReopening(f, r) ==
  CASE f.pc = "body" -> BSend(f, "op", "open_file", OpenArg(f.p, 1))
    [] f.pc = "op" -> IF Failed(r) THEN BExit(f, r)
                      ELSE BCall([f EXCEPT !.fid = r.n], "rd", "read", ReadArg(r.n, f.off, f.n))
    [] f.pc = "rd" -> IF Failed(r) THEN BExit(f, r)
                      ELSE BExit([f EXCEPT !.off = @ + BLen(r.s)], r)
\* _SMBReadStream.read inside the mutex; n is want
BodyStreamRead(f, r) ==
  CASE f.pc = "body" -> IF f.fid = 0 THEN BSend(f, "op", "open_file", OpenArg(f.p, 1))
                        ELSE BCall(f, "rd", "read", ReadArg(f.fid, f.off, f.n))
    [] f.pc = "op" -> IF Failed(r) THEN BExit(f, r)
                      ELSE BCall([f EXCEPT !.fid = r.n], "rd", "read", ReadArg(r.n, f.off, f.n))
    [] f.pc = "rd" -> IF Failed(r) THEN BExit(f, r)
                      ELSE BExit([f EXCEPT !.off = @ + BLen(r.s)], r)
\* A variant that leaves the position where it was.
BodyStreamWriteInPlace(f, r) ==
  CASE f.pc = "body" -> IF f.fid = 0 THEN BSend(f, "op", "open_file", OpenArg(f.p, 5))
                        ELSE BCall(f, "wr", "write", WriteArg(f.fid, f.buf, f.off))
    [] f.pc = "op" -> IF Failed(r) THEN BExit(f, r)
                      ELSE BCall([f EXCEPT !.fid = r.n], "wr", "write", WriteArg(r.n, f.buf, f.off))
    [] f.pc = "wr" -> IF Failed(r) THEN BExit(f, r) ELSE BExit(f, Value(BLen(f.buf)))
\* _SMBWriteStream.write inside the mutex
BodyStreamWrite(f, r) ==
  CASE f.pc = "body" -> IF f.fid = 0 THEN BSend(f, "op", "open_file", OpenArg(f.p, 5))
                        ELSE BCall(f, "wr", "write", WriteArg(f.fid, f.buf, f.off))
    [] f.pc = "op" -> IF Failed(r) THEN BExit(f, r)
                      ELSE BCall([f EXCEPT !.fid = r.n], "wr", "write", WriteArg(r.n, f.buf, f.off))
    [] f.pc = "wr" -> IF Failed(r) THEN BExit(f, r)
                      ELSE BExit([f EXCEPT !.off = @ + BLen(f.buf)], Value(BLen(f.buf)))
\* _SMBReadStream.close, _SMBWriteStream.close inside the mutex: no liveness
\* check; close_file only with a file-id and a transport; the finally
BodyStreamClose(f, r, cl) ==
  LET fin == [f EXCEPT !.fid = 0, !.closed = TRUE]
  IN  IF f.pc = "body"
        THEN IF f.fid # 0 /\ cl.t # 0 THEN BSend(f, "cl", "close_file", FidArg(f.fid))
             ELSE BExit(fin, RetNone)
        ELSE BExit(fin, r)

\* get_file: min(self._max_buf - 64, 32768); put_file: min(self._max_buf - 128, 16384)
MaxRead(cl) == Min(cl.max_buf - GET_HEADROOM, GET_CHUNK)
MaxWrite(cl) == Min(cl.max_buf - PUT_HEADROOM, PUT_CHUNK)
\* io.BytesIO.read(k) at position pos: everything left when k is negative
FobjRead(d, pos, k) == IF k < 0 THEN BDrop(d, pos) ELSE BSlice(d, pos, k)
\* A call inside a try whose finally closes the file: a struct.error goes to
\* the finally like any other exception.
BTry(f, pc, cmd, arg) ==
  IF PackFails(cmd, arg)
    THEN BSend([f EXCEPT !.pend = Exc("struct.error", 0)], "cl", "close_file", FidArg(f.fid))
    ELSE BSend(f, pc, cmd, arg)

\* The local file object of get_file or put_file raises when it is used.
FobjFails(f) == f.name = "fobj"
\* N3DSClient.put_file opens with disp=5 (overwrite or create)
PutOpenArgKeepingContent(p) == OpenArg(p, 1)
PutOpenArg(p) == OpenArg(p, 5)
\* A variant of put_file's loop that writes every chunk at offset 0.
PutNextAtZero(f, cl) ==
  IF FobjRead(f.buf, f.off, MaxWrite(cl)) = << >>
    THEN BSend(f, "cl", "close_file", FidArg(f.fid))
    ELSE BTry([f EXCEPT !.n = BLen(FobjRead(f.buf, f.off, MaxWrite(cl)))], "wr", "write",
              WriteArg(f.fid, FobjRead(f.buf, f.off, MaxWrite(cl)), 0))
\* put_file's loop with total = f.off: buf is the file object's content, n
\* the length of the chunk being written.
PutNext(f, cl) ==
  IF FobjFails(f)
    THEN BSend([f EXCEPT !.pend = Exc("OSError", 0)], "cl", "close_file", FidArg(f.fid))
  ELSE IF FobjRead(f.buf, f.off, MaxWrite(cl)) = << >>
    THEN BSend(f, "cl", "close_file", FidArg(f.fid))
    ELSE BTry([f EXCEPT !.n = BLen(FobjRead(f.buf, f.off, MaxWrite(cl)))], "wr", "write",
              WriteArg(f.fid, FobjRead(f.buf, f.off, MaxWrite(cl)), f.off))
\* N3DSClient.put_file
BodyPutFile(f, r, cl) ==
  CASE f.pc = "body" -> BSend(f, "op", "open_file", PutOpenArg(f.p))
    [] f.pc = "op" -> IF Failed(r) THEN BExit(f, r)
                      ELSE PutNext([f EXCEPT !.fid = r.n, !.off = 0], cl)
    [] f.pc = "wr" -> IF Failed(r)
                        THEN BSend([f EXCEPT !.pend = r.exc], "cl", "close_file", FidArg(f.fid))
                        ELSE PutNext([f EXCEPT !.off = @ + f.n], cl)
    [] f.pc = "cl" -> IF Failed(r) THEN BExit(f, r)
                      ELSE IF f.pend # NoExc THEN BExit(f, Raised(f.pend))
                      ELSE BExit(f, Value(f.off))
\* get_file's loop with total = f.off: buf is what fobj.write received.
GetNext(f, cl) == BTry(f, "rd", "read", ReadArg(f.fid, f.off, MaxRead(cl)))
\* A variant of get_file without the finally: an exception of read leaves at once.
BodyGetFileNoFinally(f, r, cl) ==
  CASE f.pc = "body" -> BSend(f, "op", "open_file", OpenArg(f.p, 1))
    [] f.pc = "op" -> IF Failed(r) THEN BExit(f, r)
                      ELSE GetNext([f EXCEPT !.fid = r.n, !.off = 0, !.buf = << >>], cl)
    [] f.pc = "rd" -> IF Failed(r) THEN BExit(f, r)
                      ELSE IF r.s = << >> THEN BSend(f, "cl", "close_file", FidArg(f.fid))
                      ELSE GetNext([f EXCEPT !.buf = BCat(@, r.s), !.off = @ + BLen(r.s)], cl)
    [] f.pc = "cl" -> IF Failed(r) THEN BExit(f, r)
                      ELSE IF f.pend # NoExc THEN BExit(f, Raised(f.pend))
                      ELSE BExit(f, Ret(NoExc, f.off, f.buf))
\* N3DSClient.get_file
BodyGetFile(f, r, cl) ==
  CASE f.pc = "body" -> BSend(f, "op", "open_file", OpenArg(f.p, 1))
    [] f.pc = "op" -> IF Failed(r) THEN BExit(f, r)
                      ELSE GetNext([f EXCEPT !.fid = r.n, !.off = 0, !.buf = << >>], cl)
    [] f.pc = "rd" -> IF Failed(r)
                        THEN BSend([f EXCEPT !.pend = r.exc], "cl", "close_file", FidArg(f.fid))
                      ELSE IF r.s = << >> THEN BSend(f, "cl", "close_file", FidArg(f.fid))
                      ELSE IF FobjFails(f)
                        THEN BSend([f EXCEPT !.pend = Exc("OSError", 0)], "cl", "close_file",
                                   FidArg(f.fid))
                      ELSE GetNext([f EXCEPT !.buf = BCat(@, r.s), !.off = @ + BLen(r.s)], cl)
    [] f.pc = "cl" -> IF Failed(r) THEN BExit(f, r)
                      ELSE IF f.pend # NoExc THEN BExit(f, Raised(f.pend))
                      ELSE BExit(f, Ret(NoExc, f.off, f.buf))

Body(f, r, cl) ==
  CASE f.fn = "listdir" -> BodyListdir(f, r)
    [] f.fn = "quota" -> BodyQuota(f, r)
    [] f.fn = "mkdir" -> BodyMkdir(f, r)
    [] f.fn = "create" -> BodyCreate(f, r)
    [] f.fn = "rmdir" -> BodyRmdir(f, r)
    [] f.fn = "rename" -> BodyRename(f, r)
    [] f.fn = "delete" -> BodyDelete(f, r)
    [] f.fn = "copy" -> BodyCopy(f, r)
    [] f.fn = "sread" -> BodyStreamRead(f, r)
    [] f.fn = "swrite" -> BodyStreamWrite(f, r)
    [] f.fn = "sclose" -> BodyStreamClose(f, r, cl)
    [] f.fn = "put_file" -> BodyPutFile(f, r, cl)
    [] f.fn = "get_file" -> BodyGetFile(f, r, cl)

\* Which locked sections begin with self._p._ensure_connected()
ChecksLiveness(fn) == fn # "sclose"
\* A variant in which _SMBReadStream.read runs without the mutex.
TakesLockButStreamRead(fn) == fn # "sread"
\* Which locked sections run under "with self._p._lock"
TakesLock(fn) == TRUE

\* A variant of a with-block that keeps the mutex when its body raised.
ExitSectionHoldingOnError(s, w, f, r) ==
  LET sm == IF f.fn \in {"sread", "swrite", "sclose"}
              THEN [s.th[w].stream EXCEPT !.fid = f.fid, !.pos = f.off, !.closed = f.closed]
              ELSE s.th[w].stream
      unlocked == IF s.lock.owner # w \/ Failed(r) THEN s.lock
                  ELSE IF s.lock.count = 1 THEN [owner |-> "", count |-> 0]
                  ELSE [s.lock EXCEPT !.count = @ - 1]
      After(run) ==
        [s EXCEPT !.lock = unlocked,
                  !.th[w] = [stack |-> run.stack, stream |-> sm],
                  !.http = IF run.done THEN HttpOf(s.th[w].stack[1], run.out) ELSE @]
  IN  After(Run(Pop(s.th[w].stack), r, readonly))
\* The end of a with-block: the mutex is released, the stream's fields are
\* the section's, and the caller goes on with r.
ExitSection(s, w, f, r) ==
  LET sm == IF f.fn \in {"sread", "swrite", "sclose"}
              THEN [s.th[w].stream EXCEPT !.fid = f.fid, !.pos = f.off, !.closed = f.closed]
              ELSE s.th[w].stream
      unlocked == IF s.lock.owner # w THEN s.lock
                  ELSE IF s.lock.count = 1 THEN [owner |-> "", count |-> 0]
                  ELSE [s.lock EXCEPT !.count = @ - 1]
      After(run) ==
        [s EXCEPT !.lock = unlocked,
                  !.th[w] = [stack |-> run.stack, stream |-> sm],
                  !.http = IF run.done THEN HttpOf(s.th[w].stack[1], run.out) ELSE @]
  IN  After(Run(Pop(s.th[w].stack), r, readonly))

\* Go on in the section's body with the value r of the client call.
BodyStep(s, w, b) ==
  IF b.kind = "send"
    THEN SendReq([s EXCEPT !.th[w].stack = SetTop(@, b.f)], w, b.cmd, b.arg,
                 s.client.uid, s.client.tid)
    ELSE ExitSection(s, w, b.f, b.ret)
RunBody(s, w, r) == BodyStep(s, w, Body(Top(s.th[w].stack), r, s.client))

\* N3DSClient.close
Close(s) ==
  IF s.client.t # 0
    THEN [s EXCEPT !.socks[s.client.t] = NoSock, !.client.t = 0]
    ELSE s

\* N3DSClient.connect up to the blocking sock.connect
Connect(s, w) ==
  LET stk == s.th[w].stack
  IN  [s EXCEPT !.th[w].stack = SetTop(stk, [Top(stk) EXCEPT !.pc = "tcp_w"])]

\* N3DSClient.echo up to its recv
Echo(s, w) ==
  LET stk == s.th[w].stack
  IN  SendReq([s EXCEPT !.th[w].stack = SetTop(stk, [Top(stk) EXCEPT !.pc = "echo_w"])],
              w, "echo", NoArg, s.client.uid, s.client.tid)

\* A variant of _ensure_connected that trusts a transport that is present.
EnsureConnectedWithoutEcho(s, w) ==
  IF s.client.t = 0 THEN Connect(s, w) ELSE RunBody(s, w, RetNone)

\* N3DSSMBProvider._ensure_connected up to its first blocking call
EnsureConnected(s, w) ==
  IF s.client.t = 0 THEN Connect(s, w) ELSE Echo(s, w)

\* "with self._p._lock:" and the section up to its first blocking call
SectionFrame(c) ==
  [Frame(c.sec.fn, c.sec.p, c.sec.q, "") EXCEPT
     !.pc = "body", !.fid = c.fid, !.off = c.off, !.buf = c.buf, !.n = c.n, !.closed = c.closed]
Locked(s, w, f) ==
  [s EXCEPT !.lock = IF TakesLock(f.fn) THEN [owner |-> w, count |-> s.lock.count + 1] ELSE @,
            !.th[w].stack = Append(@, f)]
SectionStart(s, w, f) ==
  IF ChecksLiveness(f.fn) THEN EnsureConnected(s, w) ELSE RunBody(s, w, RetNone)
EnterSection(s, w) ==
  SectionStart(Locked(s, w, SectionFrame(Top(s.th[w].stack))), w,
               SectionFrame(Top(s.th[w].stack)))

MayEnter(s, w) == ~TakesLock(Top(s.th[w].stack).sec.fn) \/ s.lock.owner \in {"", w}

\* ------------------------------------------------------------- server
\* The replies the console may give to a request, each with the server's
\* state after it; "dead" is the peer gone (recv_bytes gets no bytes).
ServerReplies(s, req) ==
  LET k == s.socks[req.conn]
      base == [dead |-> FALSE, fault |-> FALSE, status |-> 0, n |-> 0, s |-> << >>,
               tree |-> s.tree, fids |-> k.fids, stage |-> k.stage, uid |-> k.uid,
               tid |-> k.tid, mb |-> 0, sk |-> 0]
      rej(st) == [base EXCEPT !.status = st]
      refuse == IF s.faults < MaxFaults THEN {[base EXCEPT !.status = NT.denied, !.fault = TRUE]}
                ELSE {}
      drop == IF ~k.up THEN {[base EXCEPT !.dead = TRUE]}
              ELSE IF s.faults < MaxFaults THEN {[base EXCEPT !.dead = TRUE, !.fault = TRUE]}
              ELSE {}
      established == k.stage = 4 /\ req.uid = k.uid /\ req.tid = k.tid
      Data(d) == [base EXCEPT !.status = d.status, !.n = d.n, !.s = d.s, !.tree = d.tree,
                              !.fids = d.fids]
  IN  drop \cup
      (IF ~k.up THEN {}
       ELSE CASE req.cmd = "session" -> {[base EXCEPT !.stage = 1]} \cup refuse
              [] req.cmd = "negotiate" ->
                   IF k.stage = 1
                     THEN {[base EXCEPT !.stage = 2, !.mb = m, !.sk = x] :
                             m \in ServerMaxBufs, x \in ServerSessKeys} \cup refuse
                     ELSE {rej(NT.bad_session)}
              [] req.cmd = "auth" ->
                   IF k.stage = 2
                     THEN {[base EXCEPT !.stage = 3, !.uid = u] : u \in ServerUids} \cup refuse
                     ELSE {rej(NT.bad_session)}
              [] req.cmd = "tree" ->
                   IF k.stage = 3 /\ req.uid = k.uid
                     THEN {[base EXCEPT !.stage = 4, !.tid = x] : x \in ServerTids} \cup refuse
                     ELSE {rej(NT.bad_session)}
              [] req.cmd = "echo" -> IF established THEN {base} ELSE {base, rej(NT.bad_session)}
              [] OTHER ->
                   IF established THEN {Data(SrvData(req.cmd, s.tree, k.fids, req.arg, console))} \cup refuse
                   ELSE {rej(NT.bad_session)})

Served(s, req, rep) ==
  [s EXCEPT !.tree = rep.tree, !.wire = @ \ {req},
            !.faults = IF rep.fault THEN @ + 1 ELSE @,
            !.socks[req.conn] =
               IF rep.dead THEN [@ EXCEPT !.up = FALSE, !.fids = {}]
               ELSE [@ EXCEPT !.fids = rep.fids, !.stage = rep.stage, !.uid = rep.uid,
                              !.tid = rep.tid, !.issued = @ \cup rep.fids]]

Steps == <<"session", "negotiate", "auth", "tree">>

\* ---------------------------------------------------------------- init
Init ==
  /\ readonly \in BOOLEAN
  /\ console = [dir_rename |-> TRUE]
  /\ pure = NoPure
  /\ net = NoNet
  /\ disc = NoDisc
  /\ lock = [owner |-> "", count |-> 0]
  /\ client = NoClient
  /\ socks = [c \in ConnIds |-> NoSock]
  /\ nconn = 0
  /\ wire = {}
  /\ tree = InitTree
  /\ th = [w \in Workers |-> [stack |-> << >>, stream |-> NoStream]]
  /\ http = NoHttp
  /\ ops = 0
  /\ faults = 0
  /\ g = [fail |-> NoFail, call |-> NoCall, draws |-> NoDraws, io |-> NoIo, sent |-> << >>]

\* ------------------------------------------------------------- actions
InSection(w) == th[w].stack # << >> /\ Top(th[w].stack).fn \in SecFns \cup ClientFns
At(w, pc) == InSection(w) /\ Top(th[w].stack).pc = pc
ReqOf(w) == CHOOSE r \in wire : r.by = w
SetPc(s, w, pc) == [s EXCEPT !.th[w].stack = SetTop(@, [Top(@) EXCEPT !.pc = pc])]
SetChk(s, w, chk) == [s EXCEPT !.th[w].stack = SetTop(@, [Top(@) EXCEPT !.chk = chk])]
Leave(s, w, r) == ExitSection(s, w, Top(s.th[w].stack), r)

\* The calls the HTTP layer makes: method, path, destination, name (or the
\* is_move flag of copy_move_single).
Calls ==
  { <<"get_resource_inst", <<"d", "f">>, Root, "">>,
    <<"get_resource_inst", <<"g">>, Root, "">>,
    <<"get_member_list", <<"g">>, Root, "">>,
    <<"get_available_bytes", Root, Root, "">>,
    <<"create_collection", Root, Root, "g">>,
    <<"create_collection", Root, Root, "">>,
    <<"create_empty_resource", Root, Root, "g">>,
    <<"file_delete", <<"d", "f">>, Root, "">>,
    <<"file_delete", <<"g">>, Root, "">>,
    <<"dir_delete", <<"d">>, Root, "">>,
    <<"handle_move", <<"d", "f">>, <<"g">>, "">>,
    <<"move_recursive", <<"d">>, <<"g">>, "">>,
    <<"copy_move_single", <<"d", "f">>, <<"g">>, "">> }
StreamOpens == { <<"get_content", <<"d", "f">> >>, <<"begin_write", <<"g">> >> }

\* The HTTP layer calls a bridge method: the method runs to its first
\* blocking point, the mutex included.
Begun(w, fr, sm, run) ==
  [St EXCEPT !.ops = @ + 1, !.th[w] = [stack |-> run.stack, stream |-> sm],
             !.http = IF run.done THEN HttpOf(fr, run.out) ELSE @]
Started(w, s0) ==
  IF s0.th[w].stack = << >> THEN Commit(s0) ELSE MayEnter(s0, w) /\ Commit(EnterSection(s0, w))
StartWithin(w, fr, sm, max) ==
  /\ th[w].stack = << >>
  /\ ops < max
  /\ Started(w, Begun(w, fr, sm, Run(<< fr >>, RetNone, readonly)))
Start(w, fr, sm) == StartWithin(w, fr, sm, MaxOps)

BeginCall(w) ==
  /\ th[w].stream.kind = "none" \/ th[w].stream.closed
  /\ \E c \in Calls : Start(w, Frame(c[1], c[2], c[3], c[4]), NoStream)

Opened(w, c, run) ==
  LET sm == [NoStream EXCEPT !.kind = IF c[1] = "get_content" THEN "r" ELSE "w", !.p = c[2]]
  IN  [St EXCEPT !.th[w].stream = IF Failed(run.out) THEN NoStream ELSE sm,
                 !.http = HttpOf(Frame(c[1], c[2], Root, ""), run.out)]

\* get_content / begin_write hand the HTTP layer a stream on the path; neither
\* blocks nor talks to the console.
BeginStream(w) ==
  /\ th[w].stack = << >>
  /\ th[w].stream.kind = "none" \/ th[w].stream.closed
  /\ \E c \in StreamOpens :
       Commit(Opened(w, c, Run(<< Frame(c[1], c[2], Root, "") >>, RetNone, readonly)))

\* read, write and close on the worker's stream
StreamCalls(sm) ==
  {<<"stream_read", n, << >> >> : n \in IF sm.kind = "r" THEN ReadSizes ELSE {}}
    \cup {<<"stream_write", 0, b>> : b \in IF sm.kind = "w" THEN WriteChunks ELSE {}}
    \cup {<<"stream_close", 0, << >> >>}
\* The call c on the stream sm: the stream's fields are the object's.
StreamFrame(sm, c) ==
  [Frame(c[1], sm.p, Root, "") EXCEPT !.fid = sm.fid, !.off = sm.pos, !.closed = sm.closed,
                                      !.n = c[2], !.buf = c[3]]
StreamCall(w) ==
  /\ th[w].stream.kind # "none"
  /\ \E c \in StreamCalls(th[w].stream) : Start(w, StreamFrame(th[w].stream, c), th[w].stream)

\* A method between two locked sections gets the mutex for the next one.
Continue(w) ==
  /\ th[w].stack # << >>
  /\ ~InSection(w)
  /\ MayEnter(St, w)
  /\ Commit(EnterSection(St, w))

\* connect: socket() and sock.connect return or raise; _nb_session sends the
\* session request on the new socket.
TcpConnect(w) ==
  /\ At(w, "tcp_w")
  /\ \/ /\ nconn + 1 \in ConnIds
        /\ LET c == nconn + 1
               req == [by |-> w, conn |-> c, cmd |-> "session", mid |-> 0, uid |-> 0, tid |-> 0,
                       arg |-> NoArg, locked |-> lock.owner = w, chk |-> Top(th[w].stack).chk,
                       sec |-> Top(th[w].stack).fn, op |-> th[w].stack[1].fn]
               s1 == [St EXCEPT !.nconn = c,
                                !.socks[c] = [NoSock EXCEPT !.open = TRUE, !.up = TRUE,
                                                           !.life = <<"session">>],
                                !.wire = @ \cup {req},
                                !.th[w].stack = SetTop(@, [Top(@) EXCEPT !.sock = c, !.pc = "nb_w"])]
           IN  Commit(s1)
     \/ /\ faults < MaxFaults
        /\ Commit(Leave([St EXCEPT !.faults = @ + 1], w, Raised(Exc("ConnectionError", 0))))

\* _nb_session's recv, then SMBTransport(sock) and _negotiate's send
NbSessionRecv(w) ==
  /\ At(w, "nb_w")
  /\ \E rep \in ServerReplies(St, ReqOf(w)) :
       LET c == Top(th[w].stack).sock
           s1 == Served(St, ReqOf(w), rep)
       IN  Commit(IF rep.dead \/ rep.status # 0
                    THEN Leave(s1, w, Raised(IF rep.dead THEN Exc("ConnectionError", 0)
                                             ELSE Exc("RuntimeError", 0)))
                    ELSE SendReq(SetPc([s1 EXCEPT !.client.t = c, !.socks[c].mid = 0], w, "neg_w"),
                                 w, "negotiate", NoArg, 0, 0))

\* A variant of _negotiate that does not look at the status.
NegotiateRecvIgnoringStatus(w) ==
  /\ At(w, "neg_w")
  /\ \E rep \in ServerReplies(St, ReqOf(w)) :
       LET s1 == Served(St, ReqOf(w), rep)
       IN  Commit(IF rep.dead
                    THEN Leave(s1, w, Raised(Exc("ConnectionError", 0)))
                    ELSE SendReq(SetPc([s1 EXCEPT !.client.max_buf = rep.mb,
                                                  !.client.sess_key = rep.sk], w, "auth_w"),
                                 w, "auth", NoArg, 0, 0))

\* _negotiate's recv, then _auth's send
NegotiateRecv(w) ==
  /\ At(w, "neg_w")
  /\ \E rep \in ServerReplies(St, ReqOf(w)) :
       LET s1 == Served(St, ReqOf(w), rep)
       IN  Commit(IF rep.dead \/ rep.status # 0
                    THEN Leave(s1, w, Raised(IF rep.dead THEN Exc("ConnectionError", 0)
                                             ELSE Exc("RuntimeError", rep.status)))
                    ELSE SendReq(SetPc([s1 EXCEPT !.client.max_buf = rep.mb,
                                                  !.client.sess_key = rep.sk], w, "auth_w"),
                                 w, "auth", NoArg, 0, 0))

\* _auth's recv, then _tree_connect's send
AuthRecv(w) ==
  /\ At(w, "auth_w")
  /\ \E rep \in ServerReplies(St, ReqOf(w)) :
       LET s1 == Served(St, ReqOf(w), rep)
       IN  Commit(IF rep.dead \/ rep.status # 0
                    THEN Leave(s1, w, Raised(IF rep.dead THEN Exc("ConnectionError", 0)
                                             ELSE Exc("RuntimeError", rep.status)))
                    ELSE SendReq(SetPc([s1 EXCEPT !.client.uid = rep.uid], w, "tree_w"),
                                 w, "tree", NoArg, rep.uid, 0))

\* _tree_connect's recv; connect and _ensure_connected return, the section's
\* body starts
TreeRecv(w) ==
  /\ At(w, "tree_w")
  /\ \E rep \in ServerReplies(St, ReqOf(w)) :
       LET how == IF Top(th[w].stack).chk = "echo_failed" THEN "reconnected" ELSE "connected"
           s1 == Served(St, ReqOf(w), rep)
       IN  Commit(IF rep.dead \/ rep.status # 0
                    THEN Leave(s1, w, Raised(IF rep.dead THEN Exc("ConnectionError", 0)
                                             ELSE Exc("RuntimeError", rep.status)))
                    ELSE RunBody(SetPc(SetChk([s1 EXCEPT !.client.tid = rep.tid], w, how),
                                       w, "body"),
                                 w, RetNone))

\* _ensure_connected after echo returned or raised
EchoRecv(w) ==
  /\ At(w, "echo_w")
  /\ \E rep \in ServerReplies(St, ReqOf(w)) :
       LET s1 == Served(St, ReqOf(w), rep)
           r == EchoReturn(rep)
       IN  Commit(IF ~rep.dead /\ r.n = 1
                    THEN RunBody(SetPc(SetChk(s1, w, "echo_ok"), w, "body"), w, RetNone)
                    ELSE Connect(SetChk(Close(s1), w, "echo_failed"), w))

\* What the properties remember of a client call that returned.
Noted(s, req, rep, r) ==
  [s EXCEPT !.g.call = [cmd |-> req.cmd, status |-> IF rep.dead THEN 0 ELSE rep.status,
                        raised |-> Failed(r)],
            !.g.fail = IF ~rep.dead /\ rep.status # 0
                         THEN [conn |-> req.conn, mid |-> req.mid, cl |-> s.client,
                               next |-> 0, nconn |-> 0]
                         ELSE NoFail]

\* A variant in which the client drops the transport when a call comes back
\* with a non-zero status.
CallRecvClosingOnError(w) ==
  /\ InSection(w)
  /\ Top(th[w].stack).pc \notin {"body", "tcp_w", "nb_w", "neg_w", "auth_w", "tree_w", "echo_w"}
  /\ \E rep \in ServerReplies(St, ReqOf(w)) :
       LET s1 == Noted(Served(St, ReqOf(w), rep), ReqOf(w), rep, ClientReturn(ReqOf(w).cmd, rep))
       IN  Commit(Leave(IF ~rep.dead /\ rep.status # 0 THEN Close(s1) ELSE s1, w,
                        ClientReturn(ReqOf(w).cmd, rep)))

\* The recv of a client call of a section's body, and the body up to its next
\* blocking call.
CallRecv(w) ==
  /\ InSection(w)
  /\ Top(th[w].stack).pc \notin {"body", "tcp_w", "nb_w", "neg_w", "auth_w", "tree_w", "echo_w"}
  /\ \E rep \in ServerReplies(St, ReqOf(w)) :
       Commit(RunBody(Noted(Served(St, ReqOf(w), rep), ReqOf(w), rep,
                                  ClientReturn(ReqOf(w).cmd, rep)),
                            w, ClientReturn(ReqOf(w).cmd, rep)))

Next ==
  \E w \in Workers :
    \/ BeginCall(w)
    \/ BeginStream(w)
    \/ StreamCall(w)
    \/ Continue(w)
    \/ TcpConnect(w)
    \/ NbSessionRecv(w)
    \/ NegotiateRecv(w)
    \/ AuthRecv(w)
    \/ TreeRecv(w)
    \/ EchoRecv(w)
    \/ CallRecv(w)

Spec == Init /\ [][Next]_vars

\* Every socket of the client has a timeout (connect: settimeout), so each
\* blocking socket call of a worker returns or raises; a worker that can take
\* the mutex takes it.  What the HTTP layer calls next is up to its clients.
\* (A worker stands at one place, so at most one of these steps is enabled.)
Proceeds(w) ==
  \/ Continue(w)
  \/ TcpConnect(w)
  \/ NbSessionRecv(w)
  \/ NegotiateRecv(w)
  \/ AuthRecv(w)
  \/ TreeRecv(w)
  \/ EchoRecv(w)
  \/ CallRecv(w)
Fair(w) == WF_vars(Proceeds(w))
\* Two workers, each serving listings, a collection's creation and a copy.
LockCalls ==
  { <<"get_member_list", <<"g">>, Root, "">>,
    <<"create_collection", Root, Root, "g">>,
    <<"copy_move_single", <<"d", "f">>, <<"g">>, "">> }
LockCall(w) == \E c \in LockCalls : Start(w, Frame(c[1], c[2], c[3], c[4]), NoStream)
NextLock ==
  \E w \in Workers :
    \/ LockCall(w)
    \/ Continue(w)
    \/ TcpConnect(w)
    \/ NbSessionRecv(w)
    \/ NegotiateRecv(w)
    \/ AuthRecv(w)
    \/ TreeRecv(w)
    \/ EchoRecv(w)
    \/ CallRecv(w)
SpecFair == Init /\ [][NextLock]_vars /\ \A w \in Workers : Fair(w)

\* --------------------------------------------- the multiplex id alone
\* One SMBTransport from its construction (_mid = 0): each step is one call of
\* mid(), as cmd and _negotiate make one per request.  The history watches one
\* id: the draw it was last returned by and the distance between its last two.
WatchIds == {1, 65535}
InitMid ==
  /\ readonly = FALSE
  /\ console = [dir_rename |-> TRUE]
  /\ pure = NoPure
  /\ net = NoNet
  /\ disc = NoDisc
  /\ lock = [owner |-> "", count |-> 0]
  /\ client = [NoClient EXCEPT !.t = 1]
  /\ socks = [c \in ConnIds |-> IF c = 1 THEN [NoSock EXCEPT !.open = TRUE, !.up = TRUE] ELSE NoSock]
  /\ nconn = 1
  /\ wire = {}
  /\ tree = InitTree
  /\ th = [w \in Workers |-> [stack |-> << >>, stream |-> NoStream]]
  /\ http = NoHttp
  /\ ops = 0
  /\ faults = 0
  /\ \E x \in WatchIds : g = [fail |-> NoFail, call |-> NoCall, io |-> NoIo, sent |-> << >>,
                               draws |-> [NoDraws EXCEPT !.watch = x]]

Drawn(d, m) ==
  IF m = d.watch
    THEN [d EXCEPT !.n = @ + 1, !.last = d.n + 1,
                   !.gap = IF d.last = 0 THEN 0 ELSE d.n + 1 - d.last]
    ELSE [d EXCEPT !.n = @ + 1]

MidDraw ==
  /\ g.draws.n < MaxDraws
  /\ socks' = [socks EXCEPT ![1].mid = NextMid(@)]
  /\ g' = [g EXCEPT !.draws = Drawn(@, NextMid(socks[1].mid))]
  /\ UNCHANGED <<readonly, lock, client, nconn, wire, tree, th, http, ops, faults, console, disc, pure, net>>

SpecMid == InitMid /\ [][MidDraw]_vars

\* -------------------------------------------- the client used directly
\* One thread calls a connected client's put_file, get_file, rename and
\* listdir one after the other, as the tests and the shell do, against a
\* console that answers every request and stores what it is sent.
MaxIoOps == 4
Big == BCat(Rep(1, 16484), Rep(2, 49052))
PutContents == { Hello, Rep(9, 3), Big, << >> }
IoCalls ==
  { <<"put_file", <<"f">>, Root, d>> : d \in PutContents }
    \cup { <<"get_file", <<"f">>, Root, << >> >>,
           <<"get_file", <<"g">>, Root, << >> >>,
           <<"rename", <<"f">>, <<"g">>, << >> >>,
           <<"listdir", Root, Root, << >> >> }

InitIOWith(used) ==
  /\ readonly = FALSE
  /\ console = [dir_rename |-> TRUE]
  /\ pure = NoPure
  /\ net = NoNet
  /\ disc = NoDisc
  /\ lock = [owner |-> "", count |-> 0]
  /\ \E mb \in ServerMaxBufs, sk \in ServerSessKeys, u \in ServerUids, t \in ServerTids :
        /\ client = [t |-> 1, uid |-> u, tid |-> t, max_buf |-> mb, sess_key |-> sk]
        /\ socks = [c \in ConnIds |->
                      IF c = 1 THEN [open |-> TRUE, up |-> TRUE, stage |-> 4, mid |-> 3, uid |-> u,
                                     tid |-> t, fids |-> {}, life |-> Steps, issued |-> {}]
                      ELSE NoSock]
  /\ nconn = 1
  /\ wire = {}
  /\ tree = InitTree
  /\ th = [w \in Workers |-> [stack |-> << >>, stream |-> NoStream]]
  /\ http = NoHttp
  /\ ops = 0
  /\ faults = used
  /\ g = [fail |-> NoFail, call |-> NoCall, draws |-> NoDraws, io |-> NoIo, sent |-> << >>]
\* The console and the network do not fail.
InitIO == InitIOWith(MaxFaults)

\* What a finished call means for the content expected at a path: a
\* successful put_file(p, D) makes D expected at p (over is what it replaced),
\* a successful rename of p takes the expectation along and leaves p gone.
Tracked(s) ==
  LET h == s.http
      io == s.g.io
  IN  IF h.op = "put_file"
        THEN [s EXCEPT !.g.io =
                IF Failed(h.out) THEN (IF io.p = h.p THEN NoIo ELSE io)
                ELSE [p |-> h.p, want |-> h.buf, gone |-> IF io.gone = h.p THEN Root ELSE io.gone,
                      over |-> IF io.p = h.p THEN io.want ELSE << >>, twice |-> io.p = h.p]]
      ELSE IF h.op = "rename" /\ ~Failed(h.out) /\ io.p = h.p
        THEN [s EXCEPT !.g.io = [io EXCEPT !.p = h.q, !.gone = h.p]]
      ELSE s

\* A call of the client, up to the recv of its first request.
IoCall(w) ==
  /\ th[w].stack = << >>
  /\ ops < MaxIoOps
  /\ \E c \in IoCalls :
       Commit(RunBody([St EXCEPT !.ops = @ + 1,
                                 !.th[w].stack = << [Frame(c[1], c[2], c[3], "") EXCEPT
                                                       !.pc = "body", !.buf = c[4]] >>],
                      w, RetNone))

\* The recv of a request of the call, and the call up to its next recv or
\* its return.
IoRecv(w) ==
  /\ InSection(w)
  /\ \E rep \in ServerReplies(St, ReqOf(w)) :
       Commit(Tracked(RunBody(Noted(Served(St, ReqOf(w), rep), ReqOf(w), rep,
                                    ClientReturn(ReqOf(w).cmd, rep)),
                              w, ClientReturn(ReqOf(w).cmd, rep))))

NextIO == IoCall("w1") \/ IoRecv("w1")
SpecIO == InitIO /\ [][NextIO]_vars

\* ------------------------------------------------ a directory is moved
\* One worker serves a MOVE of the directory d, which holds a file and a
\* directory with a file, to g.  The console may or may not be able to rename
\* a directory.
MoveTree ==
  [p \in Paths |->
     IF p \in {Root, <<"d">>, <<"d", "e">>} THEN [kind |-> "dir", data |-> << >>]
     ELSE IF p = <<"d", "f">> THEN [kind |-> "file", data |-> Hello]
     ELSE IF p = <<"d", "e", "f">> THEN [kind |-> "file", data |-> Rep(3, 14)]
     ELSE Absent]

InitMove ==
  /\ readonly = FALSE
  /\ console \in [dir_rename : BOOLEAN]
  /\ pure = NoPure
  /\ net = NoNet
  /\ disc = NoDisc
  /\ lock = [owner |-> "", count |-> 0]
  /\ client = NoClient
  /\ socks = [c \in ConnIds |-> NoSock]
  /\ nconn = 0
  /\ wire = {}
  /\ tree = MoveTree
  /\ th = [w \in Workers |-> [stack |-> << >>, stream |-> NoStream]]
  /\ http = NoHttp
  /\ ops = 0
  /\ faults = 0
  /\ g = [fail |-> NoFail, call |-> NoCall, draws |-> NoDraws, io |-> NoIo, sent |-> << >>]

MoveSrc == <<"d">>
MoveDst == <<"g">>
MoveCall(w) == Start(w, Frame("move_recursive", MoveSrc, MoveDst, ""), NoStream)
\* What the properties remember of a request of the move that was answered:
\* the command, its paths, where move_recursive stood and whether the
\* console accepted it.
Sent(s, w, req, rep) ==
  [s EXCEPT !.g.sent = Append(@, [cmd |-> req.cmd, p |-> req.arg.p, q |-> req.arg.q,
                                   phase |-> th[w].stack[1].pc,
                                   ok |-> ~rep.dead /\ rep.status = 0,
                                   fid |-> req.arg.fid, off |-> req.arg.off, data |-> req.arg.data,
                                   got |-> IF req.cmd = "read" /\ ~rep.dead THEN rep.s ELSE << >>,
                                   n |-> IF rep.dead THEN 0 ELSE rep.n])]
\* The recv of a client call made for the move.
MoveRecv(w) ==
  /\ InSection(w)
  /\ Top(th[w].stack).pc \notin {"body", "tcp_w", "nb_w", "neg_w", "auth_w", "tree_w", "echo_w"}
  /\ \E rep \in ServerReplies(St, ReqOf(w)) :
       Commit(Sent(RunBody(Noted(Served(St, ReqOf(w), rep), ReqOf(w), rep,
                                 ClientReturn(ReqOf(w).cmd, rep)),
                           w, ClientReturn(ReqOf(w).cmd, rep)),
                   w, ReqOf(w), rep))

\* ------------------------------------- get_file and put_file under faults
\* The client is set up; at most MaxFileOps calls of get_file and put_file,
\* in which the console may refuse a request, the peer may go away, and the
\* local file object may raise.
MaxFileOps == 2
FileCalls ==
  { <<c[1], c[2], c[3], n>> :
      c \in { <<"get_file", <<"f">>, << >> >>, <<"get_file", <<"g">>, << >> >>,
              <<"put_file", <<"f">>, Hello>>, <<"put_file", <<"g">>, << >> >> },
      n \in {"", "fobj"} }
InitFile == InitIOWith(0)
FileCall(w) ==
  /\ th[w].stack = << >>
  /\ ops < MaxFileOps
  /\ \E c \in FileCalls :
       Commit(RunBody([St EXCEPT !.ops = @ + 1,
                                 !.th[w].stack = << [Frame(c[1], c[2], Root, c[4]) EXCEPT
                                                       !.pc = "body", !.buf = c[3]] >>],
                      w, RetNone))
NextFile == FileCall("w1") \/ MoveRecv("w1")
SpecFile == InitFile /\ [][NextFile]_vars

NextMove ==
  \/ MoveCall("w1")
  \/ Continue("w1")
  \/ TcpConnect("w1")
  \/ NbSessionRecv("w1")
  \/ NegotiateRecv("w1")
  \/ AuthRecv("w1")
  \/ TreeRecv("w1")
  \/ EchoRecv("w1")
  \/ MoveRecv("w1")
SpecMove == InitMove /\ [][NextMove]_vars

\* ----------------------------------------------------------- discovery
\* Texts are sequences of symbols: " " and "LF" are whitespace, "/" is the
\* separator of the Computer element, an address is one symbol, anything
\* else is a printable character.
MaxPrompts == 2
Ips == {"10.0.0.5", "10.0.0.9"}
IsWs(c) == c \in {" ", "LF"}
RECURSIVE LStrip(_)
LStrip(t) == IF t # << >> /\ IsWs(Head(t)) THEN LStrip(Tail(t)) ELSE t
RECURSIVE RStrip(_)
RStrip(t) == IF t # << >> /\ IsWs(t[Len(t)]) THEN RStrip(SubSeq(t, 1, Len(t) - 1)) ELSE t
\* str.strip()
Strip(t) == LStrip(RStrip(t))
\* the text before the first occurrence of a symbol of seps, and what follows it
RECURSIVE Before(_, _)
Before(t, seps) ==
  IF t = << >> \/ Head(t) \in seps THEN << >> ELSE << Head(t) >> \o Before(Tail(t), seps)
After(t, seps) == SubSeq(t, Len(Before(t, seps)) + 1, Len(t))
\* str.split(None, 1) of a stripped text
SplitOnce(t) ==
  IF t = << >> THEN << >>
  ELSE IF After(t, {" ", "LF"}) = << >> THEN << t >>
  ELSE << Before(t, {" ", "LF"}), LStrip(After(t, {" ", "LF"})) >>
\* ipaddress.IPv4Address(text) does not raise
IPv4Valid(t) == Len(t) = 1 /\ t[1] \in Ips

\* _load_cache without the validation of the first token
LoadCacheUnvalidated(file) ==
  IF file.kind # "text" \/ SplitOnce(Strip(file.text)) = << >> THEN NoPair
  ELSE [ip |-> SplitOnce(Strip(file.text))[1],
        name |-> IF Len(SplitOnce(Strip(file.text))) > 1 THEN SplitOnce(Strip(file.text))[2]
                 ELSE << >>]
\* _load_cache: any exception (no file, no permission, no token, no IPv4
\* address) gives (None, None)
LoadCache(file) ==
  IF file.kind # "text" \/ SplitOnce(Strip(file.text)) = << >> THEN NoPair
  ELSE IF ~IPv4Valid(SplitOnce(Strip(file.text))[1]) THEN NoPair
  ELSE [ip |-> SplitOnce(Strip(file.text))[1],
        name |-> IF Len(SplitOnce(Strip(file.text))) > 1 THEN SplitOnce(Strip(file.text))[2]
                 ELSE << >>]
\* _save_cache: write_text(f"{ip} {name}"), an OSError is swallowed
SaveCache(file, ip, name, wr) ==
  IF wr THEN [kind |-> "text", text |-> ip \o << " " >> \o name] ELSE file

\* _wsd_get_metadata of one responder: comp is the text of its Computer
\* element (empty: no element or no text), ok whether the HTTP exchange and
\* the parse went through.
WsdMetadata(r) ==
  IF ~r.ok THEN [name |-> << >>, is_3ds |-> FALSE]
  ELSE IF r.comp # << >> THEN [name |-> Before(r.comp, {"/"}), is_3ds |-> r.is_3ds]
  ELSE [name |-> << >>, is_3ds |-> r.is_3ds]
\* _wsd_discover over the responders _wsd_probe yields
RECURSIVE WsdDiscover(_)
WsdDiscover(rs) ==
  IF rs = << >> THEN NoPair
  ELSE IF WsdMetadata(Head(rs)).name # << >> /\ WsdMetadata(Head(rs)).is_3ds
    THEN [ip |-> << Head(rs).ip >>, name |-> WsdMetadata(Head(rs)).name]
  ELSE WsdDiscover(Tail(rs))

Ev(ev, ip, name, ok) == [ev |-> ev, ip |-> ip, name |-> name, ok |-> ok]
Logged(r, e) == [r EXCEPT !.log = Append(@, e)]
\* raise out of discover_3ds
DRaise(r, cls) == [r EXCEPT !.pc = "raised", !.exc = cls]
\* discover_3ds._done
DDone(r, ip, name, wr) ==
  Logged([r EXCEPT !.pc = "ret", !.out = [ip |-> ip, name |-> name],
                   !.file = SaveCache(@, ip, name, wr)],
         Ev("save", ip, name, wr))
\* step 1, to the probe of the cached pair or past it
DStart(r) ==
  LET c == LoadCache(r.file)
      r1 == Logged([r EXCEPT !.cip = c.ip, !.cname = c.name], Ev("load", << >>, << >>, TRUE))
  IN  IF c.ip # << >> /\ c.name # << >> THEN [r1 EXCEPT !.pc = "nb"] ELSE [r1 EXCEPT !.pc = "wsd"]
\* A variant of step 1 that goes on to WS-Discovery whatever the probe said.
DNbThenWsdAnyway(r, ok, wr) == [Logged(r, Ev("nb", r.cip, r.cname, ok)) EXCEPT !.pc = "wsd"]
\* _nb_probe(cached_ip, cached_name) returned ok
DNb(r, ok, wr) ==
  IF ok THEN DDone(Logged(r, Ev("nb", r.cip, r.cname, ok)), r.cip, r.cname, wr)
  ELSE [Logged(r, Ev("nb", r.cip, r.cname, ok)) EXCEPT !.pc = "wsd"]
\* step 2 with the responders rs, then the start of step 3
DWsd(r, rs, wr) ==
  LET d == WsdDiscover(rs)
      r1 == Logged(r, Ev("wsd", d.ip, d.name, d.ip # << >> /\ d.name # << >>))
  IN  IF d.ip # << >> /\ d.name # << >> THEN DDone(r1, d.ip, d.name, wr)
      ELSE IF r.cip # << >> THEN [r1 EXCEPT !.pc = "port"]
      ELSE DRaise(r1, "RuntimeError")
\* _port_open(cached_ip) returned ok
DPort(r, ok) ==
  IF ok THEN [Logged(r, Ev("port", r.cip, << >>, ok)) EXCEPT !.ip = r.cip, !.pc = "ask"]
  ELSE DRaise(Logged(r, Ev("port", r.cip, << >>, ok)), "RuntimeError")
\* _ask_name: input() returned inp, or met the end of the input
DAsk(r, inp, eof) ==
  IF eof THEN DRaise(Logged(r, Ev("prompt", r.ip, << >>, FALSE)), "EOFError")
  ELSE IF Strip(inp) = << >> THEN DRaise(Logged(r, Ev("prompt", r.ip, << >>, FALSE)), "RuntimeError")
  ELSE [Logged(r, Ev("prompt", r.ip, Strip(inp), TRUE)) EXCEPT !.name = Strip(inp), !.pc = "asknb"]
\* _ask_name: _nb_probe(ip, name, timeout=2) returned ok
DAskNb(r, ok, wr) ==
  IF ok THEN DDone(Logged(r, Ev("asknb", r.ip, r.name, ok)), r.ip, r.name, wr)
  ELSE [Logged(r, Ev("asknb", r.ip, r.name, ok)) EXCEPT !.pc = "ask"]

\* What the home directory may hold, what answers the multicast probe, and
\* what the user types.
CacheFiles ==
  { Missing, [kind |-> "unreadable", text |-> << >>] }
    \cup { [kind |-> "text", text |-> t] :
             t \in { << >>, << "LF" >>, << "N" >>, << "N", " ", "M" >>, << "10.0.0.256", " ", "N" >>,
                     << "10.0.0.5" >>, << "10.0.0.5", "LF" >>,
                     << "10.0.0.5", " ", "N", "LF" >>, << "10.0.0.9", " ", "N", " ", "M" >> } }
Responders ==
  { [ip |-> "10.0.0.5", comp |-> << "N", "/", "W" >>, is_3ds |-> TRUE, ok |-> TRUE],
    [ip |-> "10.0.0.5", comp |-> << "N", " ", "/", "W" >>, is_3ds |-> TRUE, ok |-> TRUE],
    [ip |-> "10.0.0.5", comp |-> << "/", "W" >>, is_3ds |-> TRUE, ok |-> TRUE],
    [ip |-> "10.0.0.5", comp |-> << >>, is_3ds |-> TRUE, ok |-> TRUE],
    [ip |-> "10.0.0.5", comp |-> << >>, is_3ds |-> FALSE, ok |-> FALSE] }
Pc == [ip |-> "10.0.0.9", comp |-> << "M", "/", "W" >>, is_3ds |-> FALSE, ok |-> TRUE]
WsdAnswers == { << >> } \cup { << r >> : r \in Responders } \cup { << Pc, r >> : r \in Responders }
Inputs == { << >>, << " " >>, << "N" >>, << " ", "N", " " >>, << "N", " ", "M" >> }

InitDisc ==
  /\ readonly = FALSE
  /\ console = [dir_rename |-> TRUE]
  /\ pure = NoPure
  /\ net = NoNet
  /\ \E file \in CacheFiles : disc = [file0 |-> file, a |-> NewRun(file), b |-> NewRun(Missing)]
  /\ lock = [owner |-> "", count |-> 0]
  /\ client = NoClient
  /\ socks = [c \in ConnIds |-> NoSock]
  /\ nconn = 0
  /\ wire = {}
  /\ tree = InitTree
  /\ th = [w \in Workers |-> [stack |-> << >>, stream |-> NoStream]]
  /\ http = NoHttp
  /\ ops = 0
  /\ faults = 0
  /\ g = [fail |-> NoFail, call |-> NoCall, draws |-> NoDraws, io |-> NoIo, sent |-> << >>]

\* The run without a cache file is given the same answers for as long as it
\* has taken the same steps and waits for the same thing.
Pending(r) ==
  CASE r.pc = "nb" -> << r.cip, r.cname >>
    [] r.pc = "port" -> << r.cip >>
    [] r.pc = "asknb" -> << r.ip, r.name >>
    [] OTHER -> << >>
InStep(a, b) == b.pc = a.pc /\ b.log = a.log /\ Pending(b) = Pending(a)
Stepped(pc, F(_)) ==
  /\ disc.a.pc = pc
  /\ disc' = [disc EXCEPT !.a = F(disc.a), !.b = IF InStep(disc.a, disc.b) THEN F(disc.b) ELSE @]
  /\ UNCHANGED <<readonly, lock, client, socks, nconn, wire, tree, th, http, ops, faults,
                 console, pure, net, g>>
Prompts(r) == Cardinality({i \in 1..Len(r.log) : r.log[i].ev = "prompt"})

DiscLoad == Stepped("start", LAMBDA r : DStart(r))
DiscNbRecv == \E ok, wr \in BOOLEAN : Stepped("nb", LAMBDA r : DNb(r, ok, wr))
DiscWsdRecv == \E rs \in WsdAnswers, wr \in BOOLEAN : Stepped("wsd", LAMBDA r : DWsd(r, rs, wr))
DiscPortRecv == \E ok \in BOOLEAN : Stepped("port", LAMBDA r : DPort(r, ok))
DiscInput ==
  /\ Prompts(disc.a) < MaxPrompts
  /\ \E inp \in Inputs, eof \in BOOLEAN : Stepped("ask", LAMBDA r : DAsk(r, inp, eof))
DiscAskNbRecv == \E ok, wr \in BOOLEAN : Stepped("asknb", LAMBDA r : DAskNb(r, ok, wr))

NextDisc ==
  \/ DiscLoad
  \/ DiscNbRecv
  \/ DiscWsdRecv
  \/ DiscPortRecv
  \/ DiscInput
  \/ DiscAskNbRecv
SpecDisc == InitDisc /\ [][NextDisc]_vars

\* ------------------------------------------------- functions on their own
\* A function of the package is applied once to an input drawn at the start.
Applied(f, out) ==
  /\ pure.f = f /\ ~pure.done
  /\ pure' = [pure EXCEPT !.out = out, !.done = TRUE]
  /\ UNCHANGED <<readonly, lock, client, socks, nconn, wire, tree, th, http, ops, faults,
                 console, disc, net, g>>
InitWith(f, ins) ==
  /\ \E x \in ins : pure = [f |-> f, in |-> x, out |-> << >>, done |-> FALSE]
  /\ net = NoNet
  /\ readonly = FALSE
  /\ console = [dir_rename |-> TRUE]
  /\ disc = NoDisc
  /\ lock = [owner |-> "", count |-> 0]
  /\ client = NoClient
  /\ socks = [c \in ConnIds |-> NoSock]
  /\ nconn = 0
  /\ wire = {}
  /\ tree = InitTree
  /\ th = [w \in Workers |-> [stack |-> << >>, stream |-> NoStream]]
  /\ http = NoHttp
  /\ ops = 0
  /\ faults = 0
  /\ g = [fail |-> NoFail, call |-> NoCall, draws |-> NoDraws, io |-> NoIo, sent |-> << >>]
RECURSIVE Copies(_, _)
Copies(c, n) == IF n <= 0 THEN << >> ELSE << c >> \o Copies(c, n - 1)
RECURSIVE SeqsUpTo(_, _)
SeqsUpTo(S, n) ==
  IF n = 0 THEN { << >> }
  ELSE SeqsUpTo(S, n - 1) \cup { Append(t, c) : t \in SeqsUpTo(S, n - 1), c \in S }

\* nb_name.  Characters are code points: a, B, space, y-diaeresis, sharp s,
\* hiragana a.
MaxPrefix == 2
NbChars == {97, 66, 32, 255, 223, 12354}
NbRuns == {0, 1, 13, 14, 15, 16}
NbSuffixes == {32, 0}
\* str.upper() on the characters above
UpperChar(c) ==
  CASE c = 97 -> << 65 >>
    [] c = 223 -> << 83, 83 >>
    [] c = 255 -> << 376 >>
    [] OTHER -> << c >>
RECURSIVE Upper(_)
Upper(t) == IF t = << >> THEN << >> ELSE UpperChar(Head(t)) \o Upper(Tail(t))
\* s[:n] and s.ljust(n)
Truncated(t, n) == SubSeq(t, 1, Min(Len(t), n))
Ljust(t, n) == t \o Copies(32, n - Len(t))
RECURSIVE Nibbles(_)
Nibbles(t) ==
  IF t = << >> THEN << >>
  ELSE << (Head(t) \div 16) + 65, (Head(t) % 16) + 65 >> \o Nibbles(Tail(t))
\* bytes(iterable) raises ValueError on a value outside 0..255
Bytes(t) ==
  IF \E i \in 1..Len(t) : t[i] > 255 THEN [exc |-> "ValueError", bytes |-> << >>]
  ELSE [exc |-> "", bytes |-> t]
nb_name(name, suffix) == Bytes(Nibbles(Ljust(Truncated(Upper(name), 15), 15) \o << suffix >>))

NbInputs ==
  { [name |-> t \o Copies(c, n), suffix |-> x] :
      t \in SeqsUpTo(NbChars, MaxPrefix), c \in NbChars, n \in NbRuns, x \in NbSuffixes }
InitNb == InitWith("nb_name", NbInputs)
NbNameCall == Applied("nb_name", nb_name(pure.in.name, pure.in.suffix))
SpecNb == InitNb /\ [][NbNameCall]_vars

\* _parse_dir.  A data block is its length and the record headers met at the
\* offsets the next_offset chain visits, first at offset 0; bytes after the
\* last of them are zero.  reads is the end of the furthest header read.
MaxRecs == 3
DIR_HEADER == 94
ZeroHeader == [nxt |-> 0, size |-> 0, attr |-> 0]
Headers == { [nxt |-> n, size |-> x[1], attr |-> x[2]] :
               n \in {0, 96, 8}, x \in { <<1, 16>>, <<2, 32>>, <<2, 16>> } }
BlockLens == {0, 93, 94, 190, 300}
HeaderAt(data, k) == IF k <= Len(data.chain) THEN data.chain[k] ELSE ZeroHeader
DirEntry(h) == [size |-> h.size, attr |-> h.attr, is_dir |-> (h.attr \div 16) % 2 = 1]
\* A variant of the loop that goes on until next_offset is 0, whatever the count.
RECURSIVE ParseFromUncounted(_, _, _, _, _, _)
ParseFromUncounted(data, count, k, off, entries, reads) ==
  IF off + DIR_HEADER > data.len THEN [entries |-> entries, reads |-> reads]
  ELSE IF HeaderAt(data, k).nxt = 0
    THEN [entries |-> Append(entries, DirEntry(HeaderAt(data, k))), reads |-> off + DIR_HEADER]
  ELSE ParseFromUncounted(data, count, k + 1, off + HeaderAt(data, k).nxt,
                          Append(entries, DirEntry(HeaderAt(data, k))), off + DIR_HEADER)
\* the loop of _parse_dir before its k-th iteration, at offset off
RECURSIVE ParseFrom(_, _, _, _, _, _)
ParseFrom(data, count, k, off, entries, reads) ==
  IF k > count THEN [entries |-> entries, reads |-> reads]
  ELSE IF off + DIR_HEADER > data.len THEN [entries |-> entries, reads |-> reads]
  ELSE IF HeaderAt(data, k).nxt = 0
    THEN [entries |-> Append(entries, DirEntry(HeaderAt(data, k))), reads |-> off + DIR_HEADER]
  ELSE ParseFrom(data, count, k + 1, off + HeaderAt(data, k).nxt,
                 Append(entries, DirEntry(HeaderAt(data, k))), off + DIR_HEADER)
ParseDir(data, count) == ParseFrom(data, count, 1, 0, << >>, 0)

DirInputs ==
  { [data |-> [len |-> n, chain |-> c], count |-> k] :
      n \in BlockLens, c \in SeqsUpTo(Headers, MaxRecs), k \in 0..(MaxRecs + 1) }
InitDir == InitWith("_parse_dir", DirInputs)
ParseDirCall == Applied("_parse_dir", ParseDir(pure.in.data, pure.in.count))
SpecDir == InitDir /\ [][ParseDirCall]_vars

\* disk_info.  The response data are bytes; struct.unpack_from("<QQiI") reads
\* them little-endian, the third field as a signed 32-bit integer.
RECURSIVE LittleEndian(_)
LittleEndian(b) == IF b = << >> THEN 0 ELSE Head(b) + 256 * LittleEndian(Tail(b))
UnpackUnsigned(b) == LittleEndian(b)
UnpackSigned32(b) ==
  IF b[4] >= 128 THEN LittleEndian(SubSeq(b, 1, 3)) + 16777216 * (b[4] - 256)
  ELSE LittleEndian(b)
RECURSIVE Pack(_, _)
Pack(n, width) == IF width = 0 THEN << >> ELSE <<n % 256>> \o Pack(n \div 256, width - 1)
disk_info(st, dd) ==
  IF st # 0 \/ Len(dd) < 24 THEN [none |-> TRUE, total_bytes |-> 0, free_bytes |-> 0]
  ELSE LET total_au == UnpackUnsigned(SubSeq(dd, 1, 8))
           avail_au == UnpackUnsigned(SubSeq(dd, 9, 16))
           sec_per_au == UnpackSigned32(SubSeq(dd, 17, 20))
           bytes_per_sec == UnpackUnsigned(SubSeq(dd, 21, 24))
       IN  [none |-> FALSE,
            total_bytes |-> total_au * sec_per_au * bytes_per_sec,
            free_bytes |-> avail_au * sec_per_au * bytes_per_sec]
SectorFields == { <<8, 0, 0, 0>>, <<0, 1, 0, 0>>, <<255, 255, 255, 255>>, <<254, 255, 255, 255>> }
DiskInputs ==
  { [st |-> st, dd |-> SubSeq(Pack(t, 8) \o Pack(a, 8) \o sec \o Pack(b, 4), 1, n)] :
      st \in {0, 1}, t \in {0, 1, 100}, a \in {0, 30}, sec \in SectorFields,
      b \in {1, 512}, n \in {23, 24} }
InitDisk == InitWith("disk_info", DiskInputs)
DiskInfoCall == Applied("disk_info", disk_info(pure.in.st, pure.in.dd))
SpecDisk == InitDisk /\ [][DiskInfoCall]_vars

\* The path mapping on texts: a path is the sequence of its characters.
MaxPathLen == 5
PathChars == {"/", "\\", ".", "a"}
\* str.split(sep)
RECURSIVE Split(_, _)
Split(t, sep) ==
  IF After(t, {sep}) = << >> /\ Len(Before(t, {sep})) = Len(t) THEN << t >>
  ELSE << Before(t, {sep}) >> \o Split(SubSeq(t, Len(Before(t, {sep})) + 2, Len(t)), sep)
\* sep.join(comps)
RECURSIVE Joined(_, _)
Joined(comps, sep) ==
  IF comps = << >> THEN << >>
  ELSE IF Len(comps) = 1 THEN comps[1]
  ELSE comps[1] \o << sep >> \o Joined(Tail(comps), sep)
StartsWith(t, prefix) == Len(t) >= Len(prefix) /\ SubSeq(t, 1, Len(prefix)) = prefix
\* the loop of posixpath.normpath over the components
RECURSIVE NewComps(_, _, _)
NewComps(comps, initial_slashes, new_comps) ==
  IF comps = << >> THEN new_comps
  ELSE IF Head(comps) \in { << >>, <<".">> } THEN NewComps(Tail(comps), initial_slashes, new_comps)
  ELSE IF \/ Head(comps) # <<".", ".">>
          \/ (initial_slashes = 0 /\ new_comps = << >>)
          \/ (new_comps # << >> /\ new_comps[Len(new_comps)] = <<".", ".">>)
    THEN NewComps(Tail(comps), initial_slashes, Append(new_comps, Head(comps)))
  ELSE IF new_comps # << >>
    THEN NewComps(Tail(comps), initial_slashes, SubSeq(new_comps, 1, Len(new_comps) - 1))
  ELSE NewComps(Tail(comps), initial_slashes, new_comps)
NormPath(path) ==
  IF path = << >> THEN <<".">>
  ELSE LET initial_slashes ==
             IF ~StartsWith(path, <<"/">>) THEN 0
             ELSE IF StartsWith(path, <<"/", "/">>) /\ ~StartsWith(path, <<"/", "/", "/">>) THEN 2
             ELSE 1
           joined == Copies("/", initial_slashes) \o Joined(NewComps(Split(path, "/"), initial_slashes, << >>), "/")
       IN  IF joined = << >> THEN <<".">> ELSE joined
NormDavPath(path) ==
  IF path = << >> THEN <<"/">>
  ELSE LET normed == NormPath(IF StartsWith(path, <<"/">>) THEN path ELSE <<"/">> \o path)
       IN  IF normed = <<".">> THEN <<"/">> ELSE normed
RECURSIVE LStripSlashes(_)
LStripSlashes(t) == IF t # << >> /\ Head(t) = "/" THEN LStripSlashes(Tail(t)) ELSE t
Replaced(t, old, new) == [i \in 1..Len(t) |-> IF t[i] = old THEN new ELSE t[i]]
ToRemoteSmbPath(dav_path) ==
  IF NormDavPath(dav_path) = <<"/">> THEN <<"\\">>
  ELSE <<"\\">> \o Replaced(LStripSlashes(NormDavPath(dav_path)), "/", "\\")

PathInputs == SeqsUpTo(PathChars, MaxPathLen)
InitPath == InitWith("_to_remote_smb_path", PathInputs)
ToRemoteCall == Applied("_to_remote_smb_path", ToRemoteSmbPath(pure.in))
SpecPath == InitPath /\ [][ToRemoteCall]_vars

\* ------------------------------------------------ the rename request
\* The message of N3DSClient.rename, byte by byte; each byte is named by the
\* field it belongs to.  A path is the sequence of its code points.
MaxRenameLen == 3
SMB_HEADER_LEN == 32
RENAME_BDATA_AT == 37
RenameChars == {97, 92, 128512}
Fill(tag, n) == [i \in 1..n |-> tag]
\* str.encode("utf-16le"): two bytes for a code point of the basic plane, a
\* surrogate pair of four bytes for any other.
RECURSIVE EncodeUtf16Le(_, _)
EncodeUtf16Le(t, tag) ==
  IF t = << >> THEN << >>
  ELSE Fill(tag, IF Head(t) < 65536 THEN 2 ELSE 4) \o EncodeUtf16Le(Tail(t), tag)
\* A variant of rename's data that pads by the parity of the old path's length.
RenameBdataPadByChars(old, new) ==
  LET part1 == <<"fmt">> \o EncodeUtf16Le(old, "old") \o Fill("nul", 2)
      pad == IF Len(old) % 2 # 0 THEN <<"pad">> ELSE << >>
  IN  part1 \o <<"fmt">> \o pad \o EncodeUtf16Le(new, "new") \o Fill("nul", 2)
\* N3DSClient.rename: part1 + part2
RenameBdata(old, new) ==
  LET old_enc == EncodeUtf16Le(old, "old") \o Fill("nul", 2)
      new_enc == EncodeUtf16Le(new, "new") \o Fill("nul", 2)
      part1 == <<"fmt">> \o old_enc
      pos == RENAME_BDATA_AT + Len(part1) + 1
      pad == IF pos % 2 # 0 THEN <<"pad">> ELSE << >>
  IN  part1 \o <<"fmt">> \o pad \o new_enc
\* SMBTransport.cmd: header, word count, words, byte count, data
Cmd(words, bdata) ==
  Fill("hdr", SMB_HEADER_LEN) \o <<"wc">> \o words \o Fill("bc", 2) \o bdata
RenameMessage(old, new) == Cmd(Fill("word", 2), RenameBdata(old, new))

RenameInputs ==
  { <<old, new>> : old \in SeqsUpTo(RenameChars, MaxRenameLen),
                   new \in SeqsUpTo(RenameChars, MaxRenameLen) }
InitRename == InitWith("rename", RenameInputs)
RenameCall == Applied("rename", RenameMessage(pure.in[1], pure.in[2]))
SpecRename == InitRename /\ [][RenameCall]_vars

\* ------------------------------------------------ a directory is deleted
\* One worker serves a DELETE of the directory d or of the root, or a MOVE of
\* the root, over the tree of the move; every answered request is remembered.
DelCalls ==
  { <<"dir_delete", <<"d">>, Root>>, <<"dir_delete", Root, Root>>,
    <<"move_recursive", Root, <<"g">> >> }
DelCall(w) == \E c \in DelCalls : Start(w, Frame(c[1], c[2], c[3], ""), NoStream)
NextDel ==
  \/ DelCall("w1")
  \/ Continue("w1")
  \/ TcpConnect("w1")
  \/ NbSessionRecv("w1")
  \/ NegotiateRecv("w1")
  \/ AuthRecv("w1")
  \/ TreeRecv("w1")
  \/ EchoRecv("w1")
  \/ MoveRecv("w1")
SpecDel == InitMove /\ [][NextDel]_vars

\* ------------------------------------------------------ one stream
\* One worker opens one stream, on the file d/f for reading or on f (which
\* exists) or g (which does not) for writing, and calls read, write and close
\* on it; every answered request is remembered.
MaxStreamOps == 4
OneStreamOpens == { <<"get_content", <<"d", "f">> >>, <<"begin_write", <<"f">> >>,
                    <<"begin_write", <<"g">> >> }
InitStream == Init /\ readonly = FALSE
StreamBegin(w) ==
  /\ th[w].stack = << >>
  /\ th[w].stream.kind = "none"
  /\ \E c \in OneStreamOpens :
       Commit(Opened(w, c, Run(<< Frame(c[1], c[2], Root, "") >>, RetNone, readonly)))
StreamOp(w) ==
  /\ th[w].stream.kind # "none"
  /\ \E c \in StreamCalls(th[w].stream) :
       StartWithin(w, StreamFrame(th[w].stream, c), th[w].stream, MaxStreamOps)
NextStream ==
  \/ StreamBegin("w1")
  \/ StreamOp("w1")
  \/ TcpConnect("w1")
  \/ NbSessionRecv("w1")
  \/ NegotiateRecv("w1")
  \/ AuthRecv("w1")
  \/ TreeRecv("w1")
  \/ EchoRecv("w1")
  \/ MoveRecv("w1")
SpecStream == InitStream /\ [][NextStream]_vars

\* ------------------------------------------- a console that answers late
\* One worker calls the bridge; the socket has a timeout (client.py:26), so a
\* recv may raise before the console has answered, and the answer arrives on
\* the socket afterwards.  todo holds the requests the console has not
\* answered yet, inbox the answers nobody has read; both belong to the
\* current socket.  The exchanges of connect are answered in time.
\* sends and pairs are what the properties remember: every request sent, with
\* whether a call had timed out on its connection, and every request with the
\* response exchange returned for it.
MaxCalls == 3
NetCmds == {"delete", "rmdir"}
NetStatuses == {0, NT.denied}
\* N3DSClient.connect: a new socket and SMBTransport; negotiate, auth and tree
\* connect each draw a multiplex id.
NetConnect(n) ==
  [n EXCEPT !.t = n.nconn + 1, !.nconn = n.nconn + 1, !.mid = NextMid(NextMid(NextMid(0))),
            !.todo = << >>, !.inbox = << >>]
\* N3DSClient.close
NetClose(n) == [n EXCEPT !.t = 0]
\* SMBTransport.cmd up to the recv of exchange
NetSend(n, cmd, pc) ==
  LET m == NextMid(n.mid)
  IN  [n EXCEPT !.mid = m, !.pc = pc, !.req = [cmd |-> cmd, mid |-> m],
                !.todo = Append(@, [cmd |-> cmd, mid |-> m]),
                !.sends = Append(@, [conn |-> n.t, cmd |-> cmd, mid |-> m, late |-> n.t \in n.late])]
\* _ensure_connected when the echo returned False or raised
NetReconnect(n) == NetSend(NetConnect(NetClose(n)), n.want, "cmd_w")
NetStep(n) ==
  /\ net' = n
  /\ UNCHANGED <<readonly, lock, client, socks, nconn, wire, tree, th, http, ops, faults, console,
                 disc, pure, g>>
\* A bridge operation: _ensure_connected up to the recv of its echo, or
\* connect and the operation's own command.
NetCall ==
  /\ net.pc = "idle" /\ net.calls < MaxCalls
  /\ \E cmd \in NetCmds :
       LET n == [net EXCEPT !.calls = @ + 1, !.want = cmd]
       IN  NetStep(IF n.t = 0 THEN NetSend(NetConnect(n), cmd, "cmd_w") ELSE NetSend(n, "echo", "echo_w"))
\* The console answers its oldest request; the response carries the
\* request's command and multiplex id.
NetServe ==
  /\ net.todo # << >>
  /\ \E st \in NetStatuses :
       NetStep([net EXCEPT !.todo = Tail(@),
                            !.inbox = Append(@, [cmd |-> Head(net.todo).cmd, mid |-> Head(net.todo).mid,
                                                 status |-> st])])
\* recv returns the next message on the socket; parse_header accepts every
\* SMB message.  echo: h["status"] == 0; a command returns or raises.
NetRecv ==
  /\ net.pc \in {"echo_w", "cmd_w"} /\ net.inbox # << >>
  /\ LET h == Head(net.inbox)
         n == [net EXCEPT !.inbox = Tail(@),
                          !.pairs = Append(@, [conn |-> net.t, cmd |-> net.req.cmd, mid |-> net.req.mid,
                                               rcmd |-> h.cmd, rmid |-> h.mid])]
     IN  NetStep(IF net.pc = "cmd_w" THEN [n EXCEPT !.pc = "idle"]
                 ELSE IF h.status = 0 THEN NetSend(n, n.want, "cmd_w")
                 ELSE NetReconnect(n))
\* recv raises socket.timeout: the echo counts as failed; a command's
\* exception ends the operation.
NetTimeout ==
  /\ net.pc \in {"echo_w", "cmd_w"} /\ net.inbox = << >>
  /\ NetStep(IF net.pc = "cmd_w" THEN [net EXCEPT !.pc = "idle", !.late = @ \cup {net.t}]
             ELSE NetReconnect(net))
InitNet == InitWith("", {<< >>})
NextNet == NetCall \/ NetServe \/ NetRecv \/ NetTimeout
SpecNet == InitNet /\ [][NextNet]_vars

\* ------------------------------------------------------------ properties
HandshakePcs == <<"nb_w", "neg_w", "auth_w", "tree_w">>
Checked == {"connected", "reconnected", "echo_ok"}
IsPrefix(a, b) == Len(a) <= Len(b) /\ a = SubSeq(b, 1, Len(a))

C2_EveryCommandChecked ==
  \A r \in wire : r.cmd \in DataCmds => r.chk \in Checked

\* C2 amended: every data command of a section other than stream close was
\* sent after the liveness check (connect when the transport was absent; else
\* an echo, and on its failure close and connect); the check connects only
\* while the transport is absent and echoes only on a present one; stream
\* close sends nothing but close_file, and sends it unchecked.
C2_CheckedExceptStreamClose ==
  /\ \A r \in wire :
       r.cmd \in DataCmds =>
         IF r.sec = "sclose" THEN r.cmd = "close_file" /\ r.chk = "none"
         ELSE r.chk \in Checked
  /\ \A w \in Workers :
       /\ At(w, "tcp_w") => client.t = 0 /\ Top(th[w].stack).chk \in {"none", "echo_failed"}
       /\ At(w, "echo_w") =>
            /\ Top(th[w].stack).chk = "none"
            /\ \E r \in wire : r.by = w /\ r.cmd = "echo" /\ r.conn = client.t
       /\ InSection(w) /\ Top(th[w].stack).fn # "sclose" /\ Top(th[w].stack).chk \in Checked
            => client.t # 0

\* C2 happens: a stream's close has its close_file on the wire, unchecked.
C2_StreamCloseOnWire ==
  \E r \in wire : r.sec = "sclose" /\ r.cmd = "close_file" /\ r.chk = "none"

\* C3: on every connection the lifecycle requests sent so far are a prefix of
\* session, negotiate, auth, tree connect (so one session request, in this
\* order); a step is sent only when the console accepted all steps before it;
\* a worker waiting for a step's response has exactly that step outstanding;
\* after a refusal nothing further of the lifecycle is sent on the connection.
C3_LifecycleOrder ==
  /\ \A c \in ConnIds :
       /\ IsPrefix(socks[c].life, Steps)
       /\ Len(socks[c].life) <= socks[c].stage + 1
       /\ c <= nconn /\ socks[c].open => Len(socks[c].life) >= 1
  /\ \A w \in Workers : \A k \in 1..4 :
       At(w, HandshakePcs[k]) =>
         LET c == Top(th[w].stack).sock
         IN  /\ Len(socks[c].life) = k
             /\ socks[c].stage = k - 1
             /\ \E r \in wire : r.by = w /\ r.conn = c /\ r.cmd = Steps[k]
  /\ \A r \in wire : r.cmd \in DataCmds \cup {"echo"} => r.conn = client.t

\* C3 happens: a connection went through the whole lifecycle, and another
\* had a step refused.
C3_LifecycleCompleted ==
  /\ \E c \in ConnIds : socks[c].life = Steps /\ socks[c].stage = 4
  /\ faults > 0

\* C4 as stated: uid is 0 unless auth succeeded on the current connection and
\* tid is 0 unless tree connect succeeded on it; without a transport there is
\* no current connection.
C4_IdsFollowConnection ==
  /\ client.uid # 0 => client.t # 0 /\ socks[client.t].stage >= 3
  /\ client.tid # 0 => client.t # 0 /\ socks[client.t].stage >= 4

\* C5: every id drawn is in [1, 0xFFFF]; the n-th draw of a transport returns
\* ((n - 1) mod 0xFFFF) + 1, so each id is its predecessor plus one and 1
\* follows 0xFFFF; the same id comes back only 0xFFFF draws later, so fewer
\* than 2^16 consecutive draws are pairwise distinct.
C5_MidSequence ==
  /\ g.draws.n > 0 =>
       /\ socks[1].mid \in 1..65535
       /\ socks[1].mid = ((g.draws.n - 1) % 65535) + 1
  /\ g.draws.gap # 0 => g.draws.gap >= 65535

\* C5 happens: the id after 0xFFFF has been drawn and the watched id has come
\* back.
C5_Wrapped ==
  /\ g.draws.n > 65535
  /\ g.draws.gap # 0

\* C6: with a read-only provider the remote tree stays as it was, no mutating
\* operation ever gets as far as a locked section or a request (an echo
\* included), no write stream exists, and each mutating operation ends in the
\* 403 DAV error.
C6_ReadonlyRefusesMutation ==
  readonly =>
    /\ tree = InitTree
    /\ \A w \in Workers :
         /\ th[w].stack # << >> => th[w].stack[1].fn \notin MutatingOps
         /\ th[w].stream.kind # "w"
    /\ \A r \in wire : r.op \notin MutatingOps \cup {"stream_write"}
    /\ http.op \in MutatingOps => http.out = Raised(DAVError(403))

\* C6 happens: a mutating operation on a read-only provider has just ended
\* in the 403 DAV error.
C6_MutationRefused ==
  readonly /\ http.op \in MutatingOps /\ http.out = Raised(DAVError(403))

\* C7 as stated: whatever a bridge operation raises to the HTTP layer is a
\* DAV error.
C7_OnlyDavErrorsReachHttp ==
  Failed(http.out) => http.out.exc.cls = "DAVError"

\* C8 as stated: a delete the console rejects because the file does not
\* exist ends, at the HTTP layer, in the 404 DAV error.
C8_NotFoundIs404 ==
  (g.call.cmd = "delete" /\ g.call.status = NT.not_found /\ http.op = "file_delete")
    => http.out = Raised(DAVError(404))

\* C9 as stated: open, write, delete, rename, rmdir and listdir raise when the
\* response carries a non-zero status.
C9_StatusRaises ==
  (g.call.cmd \in {"open_file", "write", "delete", "rename", "rmdir", "listdir"}
     /\ g.call.status # 0)
    => g.call.raised

\* C10: from a data operation's failure with a non-zero status up to and
\* including the next request the client sends, the client's transport, uid,
\* tid, max buffer size and session key are what they were, the connection is
\* open; until that request the transport's id counter has not moved, and the
\* request goes out on the same connection with the id after the failed one.
C10_SessionUsableAfterFailure ==
  g.fail.conn # 0 =>
    /\ client = g.fail.cl
    /\ client.t = g.fail.conn
    /\ socks[g.fail.conn].open
    /\ IF g.fail.next = 0 THEN socks[g.fail.conn].mid = g.fail.mid
       ELSE /\ g.fail.nconn = g.fail.conn
            /\ g.fail.next = (IF g.fail.mid = 65535 THEN 1 ELSE g.fail.mid + 1)

\* C10 happens: after a failed data operation the next request has been sent.
C10_NextRequestAfterFailure ==
  g.fail.conn # 0 /\ g.fail.next # 0

InBody(w, fn) ==
  /\ InSection(w)
  /\ Top(th[w].stack).fn = fn
  /\ Top(th[w].stack).pc \notin {"body", "tcp_w", "nb_w", "neg_w", "auth_w", "tree_w", "echo_w"}

\* C11 as stated: every write request on the wire, whichever path sent it,
\* carries at most min(server_max_buffer - 128, 16384) bytes.
C11_WritesWithinLimit ==
  \A r \in wire : r.cmd = "write" => BLen(r.arg.data) <= MaxWrite(client)

\* C12 as stated: a read of a WebDAV read stream asks the server for at most
\* 32768 bytes and at most min(server_max_buffer - 64, 32768), and returns at
\* most that many bytes.
C12_StreamReadsWithinLimit ==
  /\ \A r \in wire :
       r.cmd = "read" /\ r.sec = "sread" =>
         r.arg.cnt <= STREAM_READ_DEFAULT /\ r.arg.cnt <= MaxRead(client)
  /\ http.op = "stream_read" /\ ~Failed(http.out) /\ http.out.s # << >> =>
       BLen(http.out.s) <= STREAM_READ_DEFAULT /\ BLen(http.out.s) <= MaxRead(client)

\* C16 as stated: a copy that returns without error leaves the destination a
\* file with exactly the source's content and the source as it was, and while
\* the copy is between its first open and its last close every request on
\* the wire is the copying worker's.
C16_CopyIsExact ==
  /\ http.op = "copy_move_single" /\ http.name # "move" /\ ~Failed(http.out) =>
       /\ tree[http.p] = InitTree[http.p]
       /\ tree[http.q] = tree[http.p]
  /\ \A w \in Workers : InBody(w, "copy") => \A r \in wire : r.by = w

Done(op) == http.op = op /\ ~Failed(http.out)
\* C13: put_file(p, D) returns len(D) and leaves exactly D at p, every write
\* request carries the next min(max_buf - 128, 16384) bytes of D at the offset
\* that equals the bytes already stored, and a get_file(p) that follows
\* returns len(D) and exactly D.
C13_PutThenGetRoundTrips ==
  /\ Done("put_file") => /\ http.out.n = BLen(http.buf)
                         /\ tree[http.p] = [kind |-> "file", data |-> http.buf]
  /\ \A r \in wire : r.cmd = "write" /\ r.sec = "put_file" =>
        /\ r.arg.data = BSlice(Top(th[r.by].stack).buf, r.arg.off, MaxWrite(client))
        /\ tree[Top(th[r.by].stack).p].data = BTake(Top(th[r.by].stack).buf, r.arg.off)
  /\ Done("get_file") /\ http.p = g.io.p =>
        http.out.n = BLen(g.io.want) /\ http.out.s = g.io.want
C13_BigFileReadBack ==
  Done("get_file") /\ http.p = g.io.p /\ http.out.s = Big /\ BLen(Big) = 65536

\* C14: after put_file(p, A) and then put_file(p, B), also with B shorter
\* than A, the file at p is B and get_file(p) returns exactly B.
C14_SecondPutReplaces ==
  /\ Done("put_file") /\ g.io.twice => tree[http.p].data = g.io.want /\ g.io.want = http.buf
  /\ Done("get_file") /\ http.p = g.io.p /\ g.io.twice => http.out.s = g.io.want
C14_ShorterReadBack ==
  /\ Done("get_file") /\ http.p = g.io.p /\ g.io.twice
  /\ BLen(g.io.want) < BLen(g.io.over) /\ g.io.want # << >>

NameOf(p) == p[Len(p)]
Names(listing) == { listing[i].name : i \in 1..Len(listing) }
\* C15: after put_file(old, D) and rename(old, new) in the same directory,
\* a listing of the directory shows new and not old, and get_file(new)
\* returns exactly D.
C15_RenameKeepsContent ==
  /\ Done("listdir") /\ g.io.gone # Root /\ Parent(g.io.gone) = http.p /\ Parent(g.io.p) = http.p =>
        NameOf(g.io.p) \in Names(http.out.s) /\ NameOf(g.io.gone) \notin Names(http.out.s)
  /\ Done("get_file") /\ g.io.gone # Root /\ http.p = g.io.p => http.out.s = g.io.want
  /\ Done("get_file") /\ g.io.gone # Root => http.p # g.io.gone
C15_RenamedListed ==
  /\ Done("listdir") /\ g.io.gone = <<"f">> /\ g.io.p = <<"g">> /\ g.io.want = Big
  /\ "g" \in Names(http.out.s)

\* C17 as stated: after a MOVE of a directory that reported no error, by the
\* rename or by the fallback, every file that was under the source is at the
\* corresponding path under the destination with its content, and nothing
\* is left at the source.
C17_MoveKeepsEveryFile ==
  http.op = "move_recursive" /\ ~Failed(http.out) /\ http.out.n = 0 /\ ops = 1 =>
    \A c \in Paths : IsUnder(c, http.p) =>
      /\ tree[c] = Absent
      /\ Exists(MoveTree, c) => tree[Rebase(c, http.p, http.q)] = MoveTree[c]

\* The strategy a finished step belongs to, and whether it produced a pair.
Strat(e) ==
  CASE e.ev \in {"load", "nb"} -> 1
    [] e.ev = "wsd" -> 2
    [] e.ev \in {"port", "prompt", "asknb"} -> 3
    [] OTHER -> 4
Yields(e) == e.ev \in {"nb", "wsd", "asknb"} /\ e.ok
Has(log, ev, ok) == \E i \in 1..Len(log) : log[i].ev = ev /\ log[i].ok = ok
\* C18: discover_3ds goes through cache validation, WS-Discovery and the
\* prompt in this order, starts a later strategy only after every earlier one
\* was tried and produced no pair, returns the pair of the first strategy
\* that produced one, and sends no WS-Discovery probe once the cached pair
\* was validated.
C18_StrategiesInOrder ==
  LET log == disc.a.log
  IN  /\ \A i, j \in 1..Len(log) : i < j =>
            /\ Strat(log[i]) <= Strat(log[j])
            /\ Yields(log[i]) => log[j].ev = "save"
      /\ \A j \in 1..Len(log) :
            /\ Strat(log[j]) = 2 => \E i \in 1..(j - 1) : log[i].ev = "load"
            /\ Strat(log[j]) = 3 => \E i \in 1..(j - 1) : log[i].ev = "wsd"
      /\ disc.a.pc = "ret" =>
            \E i \in 1..Len(log) :
              Yields(log[i]) /\ disc.a.out = [ip |-> log[i].ip, name |-> log[i].name]
      /\ Has(log, "nb", TRUE) => ~Has(log, "wsd", TRUE) /\ ~Has(log, "wsd", FALSE)
C18_ThirdStrategyWins ==
  /\ disc.a.pc = "ret"
  /\ Has(disc.a.log, "nb", FALSE) /\ Has(disc.a.log, "wsd", FALSE) /\ Has(disc.a.log, "asknb", TRUE)

\* C19 as stated: when discover_3ds has returned a pair and the cache write
\* did not fail, loading the cache gives exactly that pair.
C19_CacheRoundTrips ==
  disc.a.pc = "ret" /\ Has(disc.a.log, "save", TRUE) => LoadCache(disc.a.file) = disc.a.out

\* The two runs cannot be told apart: same steps with the same outcomes, same
\* position, same result or failure.
Same(a, b) == a.pc = b.pc /\ a.log = b.log /\ a.out = b.out /\ a.exc = b.exc
\* What a cache file holds: a first token that is an IPv4 address, and text
\* after it.
HasAddress(file) ==
  /\ file.kind = "text" /\ SplitOnce(Strip(file.text)) # << >>
  /\ IPv4Valid(SplitOnce(Strip(file.text))[1])
HasName(file) == file.kind = "text" /\ Len(SplitOnce(Strip(file.text))) > 1
RECURSIVE Denibbled(_)
Denibbled(b) ==
  IF Len(b) < 2 THEN << >>
  ELSE << (b[1] - 65) * 16 + (b[2] - 65) >> \o Denibbled(SubSeq(b, 3, Len(b)))
\* C21 as stated: for every name nb_name does not raise and returns 32
\* bytes, each in 'A'..'P', that decode to the name uppercased, cut and
\* space-padded to 15 characters, followed by the suffix.
C21_NbNameAlwaysEncodes ==
  pure.f = "nb_name" /\ pure.done =>
    /\ pure.out.exc = ""
    /\ Len(pure.out.bytes) = 32
    /\ \A i \in 1..Len(pure.out.bytes) : pure.out.bytes[i] \in 65..80
    /\ Denibbled(pure.out.bytes) =
         Ljust(Truncated(Upper(pure.in.name), 15), 15) \o << pure.in.suffix >>

\* The offset of the k-th record of the chain, and whether the loop may read it.
RECURSIVE OffsetOf(_, _)
OffsetOf(data, k) == IF k <= 1 THEN 0 ELSE OffsetOf(data, k - 1) + HeaderAt(data, k - 1).nxt
Readable(data, count, k) ==
  /\ k <= count /\ OffsetOf(data, k) + DIR_HEADER <= data.len
  /\ \A j \in 1..(k - 1) : HeaderAt(data, j).nxt # 0
\* C22: _parse_dir emits one entry per record, in order, with the record's
\* size and attributes; it stops after the record whose next_offset is 0 or
\* after entry_count entries, never emits more than entry_count entries, never
\* reads a header beyond the end of the data, and records with next_offset
\* (96, 0) and sizes (1, 2) give two entries of sizes 1 and 2.
C22_ParseDirFollowsChain ==
  pure.f = "_parse_dir" /\ pure.done =>
    LET e == pure.out.entries
        d == pure.in.data
    IN  /\ Len(e) <= pure.in.count
        /\ \A i \in 1..Len(e) :
              /\ e[i].size = HeaderAt(d, i).size /\ e[i].attr = HeaderAt(d, i).attr
              /\ Readable(d, pure.in.count, i)
        /\ ~Readable(d, pure.in.count, Len(e) + 1)
        /\ pure.out.reads <= d.len
        /\ ( /\ Len(d.chain) = 2 /\ d.chain[1].nxt = 96 /\ d.chain[2].nxt = 0
             /\ d.chain[1].size = 1 /\ d.chain[2].size = 2 /\ d.len >= 190 /\ pure.in.count >= 2 )
            => Len(e) = 2 /\ e[1].size = 1 /\ e[2].size = 2
C22_TwoRecordsParsed ==
  /\ pure.f = "_parse_dir" /\ pure.done /\ pure.in.data.len = 190 /\ pure.in.count = 4
  /\ Len(pure.in.data.chain) = 2
  /\ pure.in.data.chain[1].nxt = 96 /\ pure.in.data.chain[2].nxt = 0
  /\ Len(pure.out.entries) = 2 /\ pure.out.entries[1].size = 1 /\ pure.out.entries[2].size = 2

\* Natural numbers too large for one machine word, as base-256 digits, lowest first.
RECURSIVE TimesSmall(_, _, _)
TimesSmall(digits, m, carry) ==
  IF digits = << >> THEN (IF carry = 0 THEN << >> ELSE <<carry % 256>> \o TimesSmall(<< >>, m, carry \div 256))
  ELSE <<(Head(digits) * m + carry) % 256>> \o TimesSmall(Tail(digits), m, (Head(digits) * m + carry) \div 256)
RECURSIVE Trimmed(_)
Trimmed(digits) ==
  IF digits # << >> /\ digits[Len(digits)] = 0 THEN Trimmed(SubSeq(digits, 1, Len(digits) - 1)) ELSE digits
RECURSIVE DigitsOf(_)
DigitsOf(n) == IF n = 0 THEN << >> ELSE <<n % 256>> \o DigitsOf(n \div 256)
IsProduct(n, units, sectors, bytes) ==
  n >= 0 /\ DigitsOf(n) = Trimmed(TimesSmall(TimesSmall(sectors, LittleEndian(units), 0), LittleEndian(bytes), 0))
\* C23 as stated: for every successful response whose fields are read as
\* unsigned integers of 64, 64, 32 and 32 bits, disk_info returns
\* total_bytes = total * sectors * bytes and free_bytes = avail * sectors * bytes,
\* and (100, 30, 8, 512) gives 409600 and 122880.
C23_DiskInfoMultipliesUnsigned ==
  pure.f = "disk_info" /\ pure.done /\ pure.in.st = 0 /\ Len(pure.in.dd) = 24 =>
    LET dd == pure.in.dd
    IN  /\ ~pure.out.none
        /\ IsProduct(pure.out.total_bytes, SubSeq(dd, 1, 8), SubSeq(dd, 17, 20), SubSeq(dd, 21, 24))
        /\ IsProduct(pure.out.free_bytes, SubSeq(dd, 9, 16), SubSeq(dd, 17, 20), SubSeq(dd, 21, 24))
        /\ dd = Pack(100, 8) \o Pack(30, 8) \o Pack(8, 4) \o Pack(512, 4)
             => pure.out.total_bytes = 409600 /\ pure.out.free_bytes = 122880

\* The components a DAV path names: its non-empty parts between slashes, '.'
\* dropped and '..' taking back the component before it.
RECURSIVE Resolved(_, _)
Resolved(comps, kept) ==
  IF comps = << >> THEN kept
  ELSE IF Head(comps) \in { << >>, <<".">> } THEN Resolved(Tail(comps), kept)
  ELSE IF Head(comps) = <<".", ".">>
    THEN Resolved(Tail(comps), SubSeq(kept, 1, Len(kept) - 1))
  ELSE Resolved(Tail(comps), Append(kept, Head(comps)))
\* C24 as stated: for every DAV path the mapped protocol path starts with
\* exactly one backslash and consists of the DAV path's components in order,
\* separated by single backslashes, with no empty, '.' or '..' component, no
\* double separator and no trailing backslash unless it is the root, which
\* maps to a single backslash.
C24_RemotePathIsClean ==
  pure.f = "_to_remote_smb_path" /\ pure.done =>
    LET r == pure.out
        comps == Split(Tail(r), "\\")
    IN  /\ r # << >> /\ Head(r) = "\\"
        /\ IF Resolved(Split(pure.in, "/"), << >>) = << >> THEN r = <<"\\">>
           ELSE /\ comps = Resolved(Split(pure.in, "/"), << >>)
                /\ \A i \in 1..Len(comps) : comps[i] \notin { << >>, <<".">>, <<".", ".">> }
                /\ r[Len(r)] # "\\"

\* C29 as stated: when move_recursive has returned, by the rename or by the
\* fallback, with or without errors, every file that was under the source
\* exists under the source or under the destination.
C29_FailedChildIsKept ==
  http.op = "move_recursive" /\ ~Failed(http.out) /\ ops = 1 =>
    \A c \in Paths : IsUnder(c, http.p) /\ MoveTree[c].kind = "file" =>
      tree[c].kind = "file" \/ tree[Rebase(c, http.p, http.q)].kind = "file"

PhaseRank(ph) ==
  CASE ph = "ren" -> 1 [] ph = "fb_parent" -> 2 [] ph = "fb_mk" -> 3
    [] ph = "fb_list" -> 4 [] ph = "fb_kid" -> 5 [] ph = "fb_del" -> 6 [] OTHER -> 0
Removing == {"delete", "rmdir", "rename"}
\* C30: move_recursive first attempts one rename of the whole directory; when
\* the console accepts it nothing else is sent for the move and no error is
\* reported; otherwise the destination collection is created, then each child
\* is moved, then the source is deleted, in this order.
C30_RenameThenFallbackInOrder ==
  ops = 1 =>
    LET T == g.sent
    IN  /\ \A i \in 1..Len(T) :
              /\ PhaseRank(T[i].phase) > 0
              /\ \A j \in 1..(i - 1) : PhaseRank(T[j].phase) <= PhaseRank(T[i].phase)
              /\ T[i].phase = "ren" =>
                    i = 1 /\ T[i].cmd = "rename" /\ T[i].p = MoveSrc /\ T[i].q = MoveDst
              /\ T[i].phase = "ren" /\ T[i].ok => Len(T) = 1
              /\ T[i].cmd \in Removing /\ T[i].p = MoveSrc => T[i].phase \in {"ren", "fb_del"}
              /\ T[i].phase = "fb_mk" /\ T[i].cmd = "open_file" => T[i].p = MoveDst
              /\ T[i].phase = "fb_kid" /\ T[i].cmd \in Removing =>
                    IsUnder(T[i].p, MoveSrc) /\ T[i].p # MoveSrc
              /\ T[i].phase = "fb_del" /\ T[i].cmd \in Removing => IsUnder(T[i].p, MoveSrc)
        /\ (http.op = "move_recursive" /\ Len(T) > 0 /\ T[1].phase = "ren" /\ T[1].ok)
              => ~Failed(http.out) /\ http.out.n = 0
        /\ (http.op = "move_recursive" /\ ~Failed(http.out) /\ \E i \in 1..Len(T) : ~T[i].ok /\ T[i].phase = "ren")
              => \E i, j \in 1..Len(T) :
                    /\ i < j
                    /\ T[i].phase = "fb_mk" /\ T[i].cmd = "open_file" /\ T[i].p = MoveDst /\ T[i].ok
                    /\ T[j].phase = "fb_list" /\ T[j].cmd = "listdir" /\ T[j].p = MoveSrc
C30_FallbackRanInOrder ==
  /\ ops = 1 /\ http.op = "move_recursive" /\ ~Failed(http.out) /\ http.out.n = 0
  /\ Len(g.sent) > 1 /\ g.sent[1].phase = "ren" /\ ~g.sent[1].ok
  /\ \E i \in 1..Len(g.sent) : g.sent[i].phase = "fb_kid" /\ g.sent[i].cmd = "rename" /\ g.sent[i].ok
  /\ g.sent[Len(g.sent)].phase = "fb_del" /\ g.sent[Len(g.sent)].ok
  /\ tree[MoveSrc] = Absent /\ tree[<<"g", "e", "f">>] = MoveTree[<<"d", "e", "f">>]

\* C27 as stated: every file or directory command the bridge has on the wire
\* is on a connection on which negotiate, auth and tree connect have all
\* succeeded, also after a reconnect that failed partway.
C27_DataOnlyWhenSetUp ==
  \A r \in wire : r.cmd \in DataCmds => socks[r.conn].stage = 4

\* C28 as stated: a file-id is only ever sent on the connection that issued
\* it; a stream does not use, after a reconnect between two of its calls, the
\* file-id it got before.
C28_FidStaysOnItsConnection ==
  \A r \in wire : r.cmd \in {"read", "write", "close_file"} =>
      \E h \in socks[r.conn].issued : h.fid = r.arg.fid

\* C25 as stated: after a call timed out on a connection, the next bridge
\* operation sends nothing but its echo on that connection: its own command
\* goes out on a new connection, after the reconnect.
C25_TimeoutForcesReconnect ==
  \A i \in 1..Len(net.sends) : net.sends[i].late => net.sends[i].cmd = "echo"

\* C26 as stated: the response exchange returns for a request is the
\* console's reply to that request, same command and multiplex id, also
\* after an earlier request on the connection timed out, and each multiplex
\* id is in one request/response pair.
C26_ResponseMatchesRequest ==
  /\ \A i \in 1..Len(net.pairs) :
        net.pairs[i].rcmd = net.pairs[i].cmd /\ net.pairs[i].rmid = net.pairs[i].mid
  /\ \A i, j \in 1..Len(net.pairs) :
        i # j /\ net.pairs[i].conn = net.pairs[j].conn =>
          net.pairs[i].mid # net.pairs[j].mid /\ net.pairs[i].rmid # net.pairs[j].rmid

\* The requests that try to remove the object at a path.
Removes(e, c) == e.cmd \in {"delete", "rmdir"} /\ e.p = c
\* C31 as stated: in a recursive delete the rmdir of a collection is sent
\* only after a delete was attempted for every child and every descendant of
\* its child collections, and it is sent once.
C31_ChildrenBeforeRmdir ==
  ops = 1 =>
    \A i \in 1..Len(g.sent) : g.sent[i].cmd = "rmdir" =>
      /\ \A c \in Paths : IsUnder(c, g.sent[i].p) /\ c # g.sent[i].p /\ Exists(MoveTree, c) =>
            \E j \in 1..(i - 1) : Removes(g.sent[j], c)
      /\ \A j \in 1..Len(g.sent) : j # i => ~Removes(g.sent[j], g.sent[i].p)

\* C32: no rmdir of the root path is ever sent, neither by the delete nor by
\* the move of the root collection.
C32_NoRmdirOfRoot ==
  /\ \A r \in wire : r.cmd = "rmdir" => r.arg.p # Root
  /\ \A i \in 1..Len(g.sent) : g.sent[i].cmd = "rmdir" => g.sent[i].p # Root
C32_RootEmptied ==
  /\ ops = 1 /\ http.op = "dir_delete" /\ http.p = Root /\ ~Failed(http.out) /\ http.out.n = 0
  /\ tree[<<"d">>] = Absent /\ tree[<<"f">>] = Absent /\ tree[Root].kind = "dir"
  /\ \E i \in 1..Len(g.sent) : g.sent[i].cmd = "rmdir" /\ g.sent[i].p = <<"d">> /\ g.sent[i].ok

\* What the answered requests of the stream say: the requests of one command,
\* and the bytes the reads before the i-th request returned.
Of(cmd) == { i \in 1..Len(g.sent) : g.sent[i].cmd = cmd }
RECURSIVE ReadBefore(_)
ReadBefore(i) ==
  IF i <= 1 THEN 0
  ELSE ReadBefore(i - 1) + (IF g.sent[i - 1].cmd = "read" THEN BLen(g.sent[i - 1].got) ELSE 0)
TheStream == th["w1"].stream
Idle == th["w1"].stack = << >>
ReadStreamRest ==
  /\ \A i \in Of("open_file") : g.sent[i].phase = "rd"
  /\ \A i \in Of("read") : g.sent[i].off = ReadBefore(i)
  /\ Idle => TheStream.pos = ReadBefore(Len(g.sent) + 1)
  /\ Cardinality(Of("close_file")) <= 1
  /\ \A i \in Of("close_file") : \E j \in Of("open_file") : j < i /\ g.sent[j].ok
  /\ TheStream.closed => Idle /\ wire = {}
  /\ TheStream.closed /\ http.op = "stream_read" => ~Failed(http.out) /\ http.out.s = << >>
\* C33 as stated: a read stream sends an open at most once, on a read that
\* is not empty; its position advances by the number of bytes returned;
\* close sends at most one close, only for a file-id that was obtained;
\* after close a read returns empty bytes, and nothing more is sent.
C33_ReadStreamOpensOnce ==
  TheStream.kind = "r" => Cardinality(Of("open_file")) <= 1 /\ ReadStreamRest
\* C33 amended: an open is sent only on a read that is not empty and only
\* while no earlier open of the stream succeeded; the rest as stated.
C33_ReadStreamOpensUntilOpened ==
  TheStream.kind = "r" =>
    /\ \A i, j \in Of("open_file") : i < j => ~g.sent[i].ok
    /\ ReadStreamRest
C33_ReopenedReadAndClosed ==
  /\ TheStream.kind = "r" /\ TheStream.closed /\ http.op = "stream_read"
  /\ Cardinality(Of("open_file")) = 2 /\ Cardinality(Of("close_file")) = 1
  /\ TheStream.pos = STREAM_READ_DEFAULT

\* The bytes of the writes the console accepted before the i-th request.
RECURSIVE Written(_)
Written(i) ==
  IF i <= 1 THEN << >>
  ELSE BCat(Written(i - 1),
            IF g.sent[i - 1].cmd = "write" /\ g.sent[i - 1].ok THEN g.sent[i - 1].data ELSE << >>)
\* C34: every write of a write stream is sent at the offset that is the total
\* length of the earlier successful writes, so a write that raised moves
\* nothing; a write after close raises and sends nothing; close sends at
\* most one close and leaves the stream without file-id.
C34_WritesAtRunningOffset ==
  TheStream.kind = "w" =>
    /\ \A i \in Of("write") : g.sent[i].off = BLen(Written(i))
    /\ Idle => TheStream.pos = BLen(Written(Len(g.sent) + 1))
    /\ Cardinality(Of("close_file")) <= 1
    /\ TheStream.closed => Idle /\ wire = {} /\ TheStream.fid = 0
    /\ TheStream.closed /\ http.op = "stream_write" => Failed(http.out)
C34_SecondWriteThenClosed ==
  /\ TheStream.kind = "w" /\ TheStream.closed /\ http.op = "stream_write" /\ Failed(http.out)
  /\ \E i \in Of("write") : g.sent[i].off > 0 /\ g.sent[i].ok
  /\ Cardinality(Of("close_file")) = 1

\* C35: once a write stream is closed, with no failure of the console or the
\* network on the way, the remote file holds exactly the bytes written to the
\* stream: nothing of the old content is left, also when nothing was written.
C35_ClosedFileHoldsWritten ==
  TheStream.kind = "w" /\ TheStream.closed /\ faults = 0 =>
    tree[TheStream.p].data = Written(Len(g.sent) + 1)

\* The close requests that follow the i-th request before any other open.
ClosesAfter(i) ==
  { j \in Of("close_file") : j > i /\ \A k \in Of("open_file") : ~(i < k /\ k < j) }
\* C36: when open_file succeeded inside get_file or put_file, one close for
\* the file-id it returned is sent, and no second one, before the call
\* returns or raises, whatever failed in between; after an open_file that
\* raised no close is sent.
C36_OpenedFidClosedOnce ==
  \A i \in Of("open_file") :
    IF g.sent[i].ok
      THEN /\ Cardinality(ClosesAfter(i)) <= 1
           /\ \A j \in ClosesAfter(i) : g.sent[j].fid = g.sent[i].n
           /\ Idle => Cardinality(ClosesAfter(i)) = 1
      ELSE ClosesAfter(i) = {}
C36_ClosedAfterFailedRead ==
  /\ Idle /\ http.op = "get_file" /\ Failed(http.out)
  /\ \E i \in Of("open_file"), k \in Of("read") :
       /\ g.sent[i].ok /\ i < k /\ ~g.sent[k].ok
       /\ \E j \in ClosesAfter(i) : k < j

\* C37: a copy (copy_move_single with is_move false) that was the only
\* operation and has ended, with or without an error, has closed every
\* file-id it opened: none is left open on the console.
C37_CopyLeavesNoFidOpen ==
  /\ ops = 1 /\ http.op = "copy_move_single" /\ http.name # "move"
  /\ \A w \in Workers : th[w].stack = << >>
  => \A c \in ConnIds : socks[c].fids = {}

\* A worker stands before a with-block whose mutex another worker holds.
Waiting(w) == th[w].stack # << >> /\ ~InSection(w) /\ ~MayEnter(St, w)
\* The mutex is held only by a worker inside a with-block.
HeldInsideSection ==
  /\ lock.owner = "" <=> lock.count = 0
  /\ \A w \in Workers : lock.owner = w => InSection(w)
  /\ (\A w \in Workers : th[w].stack = << >>) => lock.owner = ""
C39_OpenSocketIsTheTransports ==
  (\A w \in Workers : th[w].stack = << >>) =>
    \A c \in ConnIds : socks[c].open => client.t = c

\* Where the bytes of a field stand in the message, counted from 0.
OffsetsOf(m, tag) == { i - 1 : i \in { j \in 1..Len(m) : m[j] = tag } }
Least(S) == CHOOSE x \in S : \A y \in S : x <= y
Greatest(S) == CHOOSE x \in S : \A y \in S : x >= y
\* C40: in the rename request the UTF-16 data of each of the two paths
\* starts at an even offset from the start of the SMB message, the data of
\* the second path follows its format byte after one pad byte exactly when
\* the byte after the format byte stands at an odd offset, and the message
\* ends with the second path and its terminator.
C40_RenamePathsAreAligned ==
  pure.f = "rename" /\ pure.done =>
    LET m == pure.out
        fmt1 == Least(OffsetsOf(m, "fmt"))
        fmt2 == Greatest(OffsetsOf(m, "fmt"))
        pads == OffsetsOf(m, "pad")
        data2 == fmt2 + 1 + Cardinality(pads)
        new_enc == EncodeUtf16Le(pure.in[2], "new") \o Fill("nul", 2)
    IN  /\ Cardinality(OffsetsOf(m, "fmt")) = 2
        /\ (fmt1 + 1) % 2 = 0
        /\ SubSeq(m, fmt1 + 2, fmt2) = EncodeUtf16Le(pure.in[1], "old") \o Fill("nul", 2)
        /\ pads = IF (fmt2 + 1) % 2 = 1 THEN {fmt2 + 1} ELSE {}
        /\ data2 % 2 = 0
        /\ SubSeq(m, data2 + 1, Len(m)) = new_enc
C40_OddAndPairedPathsRenamed ==
  /\ pure.f = "rename" /\ pure.done
  /\ Len(pure.in[1]) = 1 /\ Len(pure.in[2]) = 2
  /\ \E i \in 1..Len(pure.in[2]) : pure.in[2][i] >= 65536
  /\ OffsetsOf(pure.out, "pad") # {}
====
